---- MODULE Spec2Model ----
(***************************************************************************)
(* A model of the reservoir package of echomox: the Echo State Network     *)
(* engine (reservoir/esn.go) and the P-system membrane hierarchy           *)
(* (reservoir/membrane.go).                                                *)
(*                                                                         *)
(* Numbers.  The code computes in float64.  The model computes in fixed    *)
(* point: a real x is the integer x * Scale, products are divided by Scale *)
(* and truncated toward zero.  math.Tanh is modelled by its saturating     *)
(* clamp to [-1, 1].  The math/rand generator is modelled by a small       *)
(* linear congruential generator: one nondeterministic seed (the code      *)
(* seeds from the wall clock), deterministic draws afterwards.             *)
(*                                                                         *)
(* A Go run-time panic (index out of range) aborts the process: it is the  *)
(* outcome "panic", after which no operation runs.                         *)
(***************************************************************************)
EXTENDS Integers, Sequences, FiniteSets, TLC

VARIABLES
    inputWeights,      \* ESN.inputWeights: N rows of inputDim entries, <<>> while nil
    reservoirWeights,  \* ESN.reservoirWeights: N x N
    outputWeights,     \* ESN.outputWeights: outputDim rows, <<>> while nil
    state,             \* ESN.state: the reservoir state vector
    membranes,         \* ESN.membranes: the engine's own decay-pass membranes
    rng,               \* ESN.rng: the generator's internal state
    trained,           \* ESN.trained
    crashed,           \* the process was aborted by a run-time panic
    ret,               \* the last call: [op, err, arg, val]
    nDraws,            \* number of generator-consuming calls made so far
    nTrained,          \* number of trainOutput calls that returned successfully so far
    All,               \* MembraneSystem.All: the registry, in creation order
    StepCount,         \* MembraneSystem.StepCount
    mret,              \* the last membrane call: [op, err, arg, val, log]
    held,              \* the slice a caller keeps from getState: [shared, data]
    mu,                \* ESN.mu: [writer, readers]
    pc,                \* per goroutine: the call it is inside of, [op, arg]
    committed,         \* ESN.state as the last exclusive holder of mu left it
    twin               \* a second engine, for comparison with the first

lockVars == <<mu, pc, committed>>
esnVars == <<inputWeights, reservoirWeights, outputWeights, state, membranes,
             rng, trained, crashed, ret, nDraws, nTrained, held, mu, pc, committed, twin>>
\* What no operation of the engine changes: the membrane system, the twin.
memVars == <<All, StepCount, mret, twin>>
vars == <<inputWeights, reservoirWeights, outputWeights, state, membranes,
          rng, trained, crashed, ret, nDraws, nTrained, All, StepCount, mret,
          held, mu, pc, committed, twin>>

-----------------------------------------------------------------------------
(* Bounds of the model *)

\* One real unit in fixed point: three decimal digits.
Scale == 10 * 10 * 10
\* ESNParams.ReservoirSize of the engine under check (N).
ReservoirSize == 2
\* Input vectors of update have 1..MaxInputDim entries.
MaxInputDim == 2
\* Calls that draw from the generator (update, setInputWeights) per behaviour.
MaxDraws == 2
\* Successful trainOutput calls per behaviour.
MaxTrainings == 2
\* Number of distinct wall-clock seeds tried.
NumSeeds == 2

(* Program constants *)

\* epochs := 100
Epochs == 100
\* for iter := 0; iter < 50; iter++
PowerIterations == 50

-----------------------------------------------------------------------------
(* Fixed-point arithmetic *)

Abs(x) == IF x < 0 THEN -x ELSE x

\* Integer division truncating toward zero.
TDiv(a, b) == IF a >= 0 THEN a \div b ELSE -((-a) \div b)

FMul(a, b) == TDiv(a * b, Scale)

FDiv(a, b) == TDiv(a * Scale, b)

\* Fraction num/den of one unit.
Frac(num, den) == (num * Scale) \div den

RECURSIVE SqrtSearch(_, _, _)
SqrtSearch(n, lo, hi) ==
    IF lo >= hi THEN lo
    ELSE LET mid == (lo + hi + 1) \div 2
         IN  IF mid * mid <= n THEN SqrtSearch(n, mid, hi)
             ELSE SqrtSearch(n, lo, mid - 1)

\* Largest k with k*k <= n.
ISqrt(n) == SqrtSearch(n, 0, IF n < 46340 THEN n ELSE 46340)

\* math.Sqrt of a fixed-point number.
FSqrt(x) == ISqrt(x * Scale)

\* math.Tanh: odd, monotone, saturating at +-1.
Tanh(x) == IF x > Scale THEN Scale ELSE IF x < -Scale THEN -Scale ELSE x

RECURSIVE SumSeq(_)
SumSeq(s) == IF s = <<>> THEN 0 ELSE Head(s) + SumSeq(Tail(s))

\* make([]float64, n)
Zeros_Short(n) == [i \in 1..(n - 1) |-> 0]
Zeros(n) == [i \in 1..n |-> 0]

\* make([][]float64, rows) with make([]float64, cols) each
ZeroMatrix(rows, cols) == [i \in 1..rows |-> Zeros(cols)]

-----------------------------------------------------------------------------
(* Parameters: DefaultESNParams and DefaultPersonaTrait, with the reservoir *)
(* size, sparsity and tree depth of a small engine.                        *)

params ==
    [ReservoirSize  |-> ReservoirSize,
     SpectralRadius |-> Frac(95, 100),
     InputScaling   |-> Scale,
     LeakRate       |-> Frac(3, 10),
     Sparsity       |-> Frac(1, 2),
     RidgeParam     |-> Frac(1, 100000000),
     TreeDepth      |-> 2]

persona ==
    [Valence   |-> Frac(2, 10),
     Arousal   |-> Frac(6, 10),
     Dominance |-> Frac(5, 10),
     Attention |-> Frac(8, 10),
     Memory    |-> Frac(7, 10),
     Creativity |-> Frac(5, 10)]

-----------------------------------------------------------------------------
(* The random generator *)

RngNext(r) == (75 * r + 74) % 65537

\* rng.Float64(): uniform in [0, 1), read off the generator state.
RngFloat(r) == (r * Scale) \div 65537

\* rng.NormFloat64(): a symmetric draw around 0, read off the generator state.
RngNorm(r) == 4 * RngFloat(r) - 2 * Scale

\* rand.NewSource(time.Now().UnixNano())
Seeds == 1..NumSeeds

RngSeed(seed) == RngNext(7919 * seed)

-----------------------------------------------------------------------------
(* Engine construction: NewESN, initializeReservoir, scaleSpectralRadius,   *)
(* initializeMembranes                                                      *)

N == params.ReservoirSize

\* The reservoir cells in row-major order: with probability Sparsity a
\* normal draw, else zero.  Returns the cells and the generator state.
RECURSIVE FillCellsWith(_, _, _, _)
FillCellsWith(sparsity, k, r, cells) ==
    IF k = 0 THEN [cells |-> cells, rng |-> r]
    ELSE LET r1 == RngNext(r)
         IN  IF RngFloat(r1) < sparsity
             THEN LET r2 == RngNext(r1)
                  IN  FillCellsWith(sparsity, k - 1, r2, Append(cells, RngNorm(r2)))
             ELSE FillCellsWith(sparsity, k - 1, r1, Append(cells, 0))

FillCells(k, r, cells) == FillCellsWith(params.Sparsity, k, r, cells)

\* n successive NormFloat64 draws.
RECURSIVE DrawNorms(_, _, _)
DrawNorms(k, r, v) ==
    IF k = 0 THEN [v |-> v, rng |-> r]
    ELSE LET r1 == RngNext(r)
         IN  DrawNorms(k - 1, r1, Append(v, RngNorm(r1)))

MatVec(W, v) ==
    [i \in 1..Len(W) |-> SumSeq([j \in 1..Len(W[i]) |-> FMul(W[i][j], v[j])])]

Norm2(v) == FSqrt(SumSeq([i \in 1..Len(v) |-> FMul(v[i], v[i])]))

\* v[i] /= norm.  A zero norm makes every entry NaN (0/0) in the code: the
\* vector is then the record [nan |-> TRUE].
Normalize(v) ==
    LET norm == Norm2(v)
    IN  IF norm = 0 THEN [nan |-> TRUE, v |-> v]
        ELSE [nan |-> FALSE, v |-> [i \in 1..Len(v) |-> FDiv(v[i], norm)]]

\* The power iteration loop, iter times; NaN is absorbing.
RECURSIVE PowerIterate(_, _, _)
PowerIterate(iter, W, nv) ==
    IF iter = 0 \/ nv.nan THEN nv
    ELSE PowerIterate(iter - 1, W, Normalize(MatVec(W, nv.v)))

\* The Rayleigh quotient |v' W v| of the iterated vector; NaN compares false
\* with everything, which the result 0 stands for in "eigenvalue > 0".
EstimateEigenvalue(W, nv) ==
    IF nv.nan THEN 0
    ELSE LET p == MatVec(W, nv.v)
         IN  Abs(SumSeq([i \in 1..Len(W) |-> FMul(p[i], nv.v[i])]))

\* A float64 parameter: a fixed-point value, or NaN.
Float(v) == [nan |-> FALSE, v |-> v]

NaN == [nan |-> TRUE, v |-> 0]

\* The weights scaled to the spectral radius sr, a float64 parameter: every
\* weight times sr / eigenvalue, which is NaN when sr is.
ScaleSpectralRadiusWith_Inverse(sr, W, r) ==
    LET d     == DrawNorms(Len(W), r, <<>>)
        nv    == PowerIterate(PowerIterations, W, Normalize(d.v))
        eigen == EstimateEigenvalue(W, nv)
    IN  [w   |-> IF eigen > 0
                 THEN IF sr.nan
                      THEN [i \in 1..Len(W) |-> [j \in 1..Len(W[i]) |-> NaN]]
                      ELSE LET scale == FDiv(eigen, sr.v)
                           IN  [i \in 1..Len(W) |->
                                   [j \in 1..Len(W[i]) |-> FMul(W[i][j], scale)]]
                 ELSE W,
         rng |-> d.rng, eigenvalue |-> eigen, v |-> nv]
ScaleSpectralRadiusWith(sr, W, r) ==
    LET d     == DrawNorms(Len(W), r, <<>>)
        nv    == PowerIterate(PowerIterations, W, Normalize(d.v))
        eigen == EstimateEigenvalue(W, nv)
    IN  [w   |-> IF eigen > 0
                 THEN IF sr.nan
                      THEN [i \in 1..Len(W) |-> [j \in 1..Len(W[i]) |-> NaN]]
                      ELSE LET scale == FDiv(sr.v, eigen)
                           IN  [i \in 1..Len(W) |->
                                   [j \in 1..Len(W[i]) |-> FMul(W[i][j], scale)]]
                 ELSE W,
         rng |-> d.rng, eigenvalue |-> eigen, v |-> nv]

ScaleSpectralRadius(W, r) == ScaleSpectralRadiusWith(Float(params.SpectralRadius), W, r)

RECURSIVE Pow2(_)
Pow2(k) == IF k = 0 THEN 1 ELSE 2 * Pow2(k - 1)

\* The engine's membranes: 2^level per level, ID "L<level>_M<i>",
\* permeability 0.5 + 0.5*arousal, no rules.
RECURSIVE InitializeMembranes(_, _)
InitializeMembranes(level, depth) ==
    IF level >= depth THEN <<>>
    ELSE [k \in 1..Pow2(level) |->
             [ID           |-> <<"L", level, "M", k - 1>>,
              Level        |-> level,
              Permeability |-> Frac(1, 2) + FMul(Frac(1, 2), persona.Arousal)]]
         \o InitializeMembranes(level + 1, depth)

InitializeReservoir(r) ==
    LET f == FillCells(N * N, r, <<>>)
        W == [i \in 1..N |-> [j \in 1..N |-> f.cells[(i - 1) * N + j]]]
    IN  ScaleSpectralRadius(W, f.rng)

\* No slice kept by a caller.
NoSlice == [shared |-> FALSE, data |-> <<>>]

\* The slice a caller keeps, after the engine has written st to ESN.state:
\* a slice that shares the engine's backing array shows the write.
Follow(h, st) == IF h.shared THEN [h EXCEPT !.data = st] ELSE h

\* The engine called from one goroutine at a time: mu is free between calls.
NoThreads ==
    /\ mu = [writer |-> 0, readers |-> {}]
    /\ pc = <<>>
    /\ committed = <<>>

\* NewESN's parameter validation.
ValidParams(p) ==
    /\ p.ReservoirSize > 0
    /\ p.SpectralRadius > 0 /\ p.SpectralRadius < Scale
    /\ p.LeakRate > 0 /\ p.LeakRate <= Scale

NoCall == [op |-> "new", err |-> "ok", arg |-> <<>>, val |-> <<>>]

NewESN(seed) ==
    LET res == InitializeReservoir(RngSeed(seed))
    IN  /\ ValidParams(params)
        /\ state = Zeros(N)
        /\ inputWeights = <<>>
        /\ outputWeights = <<>>
        /\ reservoirWeights = res.w
        /\ membranes = InitializeMembranes(0, params.TreeDepth)
        /\ rng = res.rng
        /\ trained = FALSE
        /\ crashed = FALSE
        /\ ret = NoCall
        /\ nDraws = 0
        /\ nTrained = 0
        /\ held = NoSlice
        /\ NoThreads

-----------------------------------------------------------------------------
(* setInputWeights, update and its passes *)

\* N x inputDim draws (rng.Float64()*2 - 1) * InputScaling, row by row.
RECURSIVE DrawInputWeights(_, _, _)
DrawInputWeights(k, r, cells) ==
    IF k = 0 THEN [cells |-> cells, rng |-> r]
    ELSE LET r1 == RngNext(r)
             w  == FMul(2 * RngFloat(r1) - Scale, params.InputScaling)
         IN  DrawInputWeights(k - 1, r1, Append(cells, w))

setInputWeights(inputDim, r) ==
    LET d == DrawInputWeights(N * inputDim, r, <<>>)
    IN  [w   |-> [i \in 1..N |-> [j \in 1..inputDim |-> d.cells[(i - 1) * inputDim + j]]],
         rng |-> d.rng]

\* leakRate := params.LeakRate * (1.0 + 0.2*persona.Attention)
EffectiveLeak == FMul(params.LeakRate, Scale + FMul(Frac(2, 10), persona.Attention))

\* The leaky update of neuron i.
LeakyUpdate(iw, W, st, input, i) ==
    LET inputSum     == SumSeq([j \in 1..Len(input) |-> FMul(iw[i][j], input[j])])
        recurrentSum == SumSeq([j \in 1..Len(st) |-> FMul(W[i][j], st[j])])
        activation   == FMul(Tanh(inputSum + recurrentSum),
                             Scale + FMul(Frac(1, 10), persona.Valence))
    IN  FMul(Scale - EffectiveLeak, st[i]) + FMul(EffectiveLeak, activation)

\* applyMembraneEvolution over membranes k..: one uniform draw per membrane;
\* below the permeability, the whole state is scaled by 1 - 0.05*level.
RECURSIVE applyMembraneEvolution(_, _, _, _)
applyMembraneEvolution(ms, k, st, r) ==
    IF k > Len(ms) THEN [state |-> st, rng |-> r]
    ELSE LET r1     == RngNext(r)
             factor == Scale - Frac(5, 100) * ms[k].Level
         IN  IF RngFloat(r1) < ms[k].Permeability
             THEN applyMembraneEvolution(ms, k + 1,
                      [i \in 1..Len(st) |-> FMul(st[i], factor)], r1)
             ELSE applyMembraneEvolution(ms, k + 1, st, r1)

\* applyRicciFlow from neuron i on, in place: neuron i moves toward the mean
\* of its recurrent neighbours, reading the entries already corrected.
RECURSIVE applyRicciFlow(_, _, _)
applyRicciFlow(W, st, i) ==
    IF i > Len(st) THEN st
    ELSE LET nb    == {j \in 1..Len(st) : W[i][j] # 0}
             count == Cardinality(nb)
             sum   == SumSeq([j \in 1..Len(st) |-> IF j \in nb THEN st[j] ELSE 0])
         IN  IF count > 0
             THEN LET avgNeighbor == TDiv(sum, count)
                      curvature   == st[i] - avgNeighbor
                      flowCoeff   == FMul(Frac(1, 100), persona.Memory)
                  IN  applyRicciFlow(W, [st EXCEPT ![i] = st[i] - FMul(flowCoeff, curvature)],
                                     i + 1)
             ELSE applyRicciFlow(W, st, i + 1)

\* Whether update returns the dimension error, given the input weights in
\* force after the lazy sizing.
DimensionMismatch_OnlyLonger(iw, input) == Len(input) > Len(iw[1])
DimensionMismatch(iw, input) == Len(input) # Len(iw[1])

Update(input) ==
    /\ ~crashed
    /\ nDraws < MaxDraws
    /\ LET lazy == Len(inputWeights) = 0
           sized == IF lazy THEN setInputWeights(Len(input), rng)
                    ELSE [w |-> inputWeights, rng |-> rng]
       IN  IF DimensionMismatch(sized.w, input)
           THEN /\ ret' = [op |-> "update", err |-> "DimensionMismatch",
                           arg |-> input, val |-> <<>>]
                /\ inputWeights' = sized.w
                /\ rng' = sized.rng
                /\ UNCHANGED <<state, nDraws>>
           ELSE LET newState == [i \in 1..Len(state) |->
                                    LeakyUpdate(sized.w, reservoirWeights, state, input, i)]
                    evolved  == applyMembraneEvolution(membranes, 1, newState, sized.rng)
                IN  /\ state' = applyRicciFlow(reservoirWeights, evolved.state, 1)
                    /\ rng' = evolved.rng
                    /\ inputWeights' = sized.w
                    /\ nDraws' = nDraws + 1
                    /\ ret' = [op |-> "update", err |-> "ok", arg |-> input, val |-> <<>>]
    /\ held' = Follow(held, state')
    /\ UNCHANGED <<reservoirWeights, outputWeights, membranes, trained, crashed, nTrained>>
    /\ UNCHANGED lockVars
    /\ UNCHANGED memVars

SetInputWeightsBody(inputDim) ==
    /\ ~crashed
    /\ nDraws < MaxDraws
    /\ LET sized == setInputWeights(inputDim, rng)
       IN  /\ inputWeights' = sized.w
           /\ rng' = sized.rng
    /\ nDraws' = nDraws + 1
    /\ ret' = [op |-> "setInputWeights", err |-> "ok", arg |-> <<inputDim>>, val |-> <<>>]
    /\ UNCHANGED <<reservoirWeights, outputWeights, state, membranes, trained, crashed,
                   nTrained, held>>
    /\ UNCHANGED memVars

SetInputWeights(inputDim) == SetInputWeightsBody(inputDim) /\ UNCHANGED lockVars

\* state := make([]float64, len(esn.state)); copy(state, esn.state)
ReturnedSlice_Alias(st) == [shared |-> TRUE, data |-> st]
ReturnedSlice(st) == [shared |-> FALSE, data |-> st]

\* GetState; the caller keeps the returned slice or drops it.
GetStateCallBody(keep) ==
    /\ ~crashed
    /\ ret' = [op |-> "getState", err |-> "ok", arg |-> <<>>,
               val |-> ReturnedSlice(state).data]
    /\ held' = IF keep THEN ReturnedSlice(state) ELSE held
    /\ UNCHANGED <<inputWeights, reservoirWeights, outputWeights, state, membranes,
                   rng, trained, crashed, nDraws, nTrained>>
    /\ UNCHANGED memVars

GetStateCall(keep) == GetStateCallBody(keep) /\ UNCHANGED lockVars

GetState == GetStateCall(FALSE)

\* for i := range esn.state { esn.state[i] = 0 }
ResetState_KeepFirst(st) == [i \in 1..Len(st) |-> IF i = 1 THEN st[i] ELSE 0]
ResetState(st) == [i \in 1..Len(st) |-> 0]

ResetBody ==
    /\ ~crashed
    /\ state' = ResetState(state)
    /\ ret' = [op |-> "reset", err |-> "ok", arg |-> <<>>, val |-> <<>>]
    /\ held' = Follow(held, state')
    /\ UNCHANGED <<inputWeights, reservoirWeights, outputWeights, membranes,
                   rng, trained, crashed, nDraws, nTrained>>
    /\ UNCHANGED memVars

Reset == ResetBody /\ UNCHANGED lockVars

-----------------------------------------------------------------------------
(* trainOutput and predict *)

\* learningRate := 0.01
LearningRate == Frac(1, 100)

Min(a, b) == IF a <= b THEN a ELSE b

\* The output matrix trainOutput starts its passes from: a fresh all-zero
\* outputDim x inputDim matrix, whatever the engine held before.
InitialOutputWeights_Resume(old, outputDim, inputDim) ==
    IF Len(old) = outputDim /\ \A i \in 1..Len(old) : Len(old[i]) = inputDim
    THEN old
    ELSE ZeroMatrix(outputDim, inputDim)
InitialOutputWeights(old, outputDim, inputDim) == ZeroMatrix(outputDim, inputDim)

\* One sample of one epoch.  The forward pass reads srow[1..inputDim] and
\* panics (index out of range) when the row is shorter; the backward pass
\* reads trow[i] row by row and panics at the first i beyond the target row,
\* after the rows before it were updated.
TrainSample(w, srow, trow, inputDim, outputDim) ==
    IF outputDim > 0 /\ inputDim > Len(srow)
    THEN [w |-> w, panic |-> TRUE]
    ELSE LET predictions == [i \in 1..outputDim |->
                                SumSeq([j \in 1..inputDim |-> FMul(w[i][j], srow[j])])]
             updated(i)  == [j \in 1..inputDim |->
                                LET error    == predictions[i] - trow[i]
                                    gradient == FMul(error, srow[j])
                                                + FMul(params.RidgeParam, w[i][j])
                                IN  w[i][j] - FMul(LearningRate, gradient)]
             done        == Min(outputDim, Len(trow))
         IN  [w     |-> [i \in 1..outputDim |-> IF i <= done THEN updated(i) ELSE w[i]],
              panic |-> Len(trow) < outputDim]

\* The samples s.. of one epoch, in order, stopping at a panic.
RECURSIVE TrainEpoch(_, _, _, _, _, _)
TrainEpoch(w, states, targets, s, inputDim, outputDim) ==
    IF s > Len(states) THEN [w |-> w, panic |-> FALSE]
    ELSE LET one == TrainSample(w, states[s], targets[s], inputDim, outputDim)
         IN  IF one.panic THEN one
             ELSE TrainEpoch(one.w, states, targets, s + 1, inputDim, outputDim)

\* epochs successive epochs of the gradient descent, stopping at a panic
\* (the first half of them, then the rest from where those ended).
RECURSIVE TrainEpochs(_, _, _, _, _, _)
TrainEpochs(w, states, targets, epochs, inputDim, outputDim) ==
    IF epochs = 0 THEN [w |-> w, panic |-> FALSE]
    ELSE IF epochs = 1 THEN TrainEpoch(w, states, targets, 1, inputDim, outputDim)
    ELSE LET half == TrainEpochs(w, states, targets, epochs \div 2, inputDim, outputDim)
         IN  IF half.panic THEN half
             ELSE TrainEpochs(half.w, states, targets, epochs - epochs \div 2,
                              inputDim, outputDim)

ConstRow(width, v) == [j \in 1..width |-> v]

SeqsUpTo(S, n) == UNION {[1..k -> S] : k \in 0..n}

\* State rows of trainOutput: narrower than, as wide as, and wider than the
\* reservoir.
StateRows == {ConstRow(d, Scale) : d \in (ReservoirSize - 1)..(ReservoirSize + 1)}

\* Target rows of trainOutput: one or two outputs.
TargetRows == {ConstRow(d, Scale) : d \in 1..2}

\* Whether a caller passed reservoir states and one target per sample: rows
\* as wide as the reservoir, target rows of one entry.
Shaped(a) ==
    /\ \A k \in 1..Len(a[1]) : Len(a[1][k]) = ReservoirSize
    /\ \A k \in 1..Len(a[2]) : Len(a[2][k]) = 1

\* Arguments of trainOutput: zero to two state rows and target rows; rows of
\* any of these widths when the two counts agree.
TrainArgs ==
    {a \in SeqsUpTo(StateRows, 2) \X SeqsUpTo(TargetRows, 2) :
        Len(a[1]) = Len(a[2]) \/ Shaped(a)}

ShapedTrainArgs == {a \in TrainArgs : Shaped(a)}

\* The gradient descent from the all-zero matrix, tabulated once for every
\* argument pair that passes the validation.
FromZero ==
    {<<a, TrainEpochs(ZeroMatrix(Len(a[2][1]), Len(a[1][1])), a[1], a[2], Epochs,
                      Len(a[1][1]), Len(a[2][1]))>> :
        a \in {b \in TrainArgs : Len(b[1]) = Len(b[2]) /\ Len(b[1]) > 0}}

\* The gradient descent of trainOutput from the matrix w0: Epochs passes over
\* all samples.
GradientDescent(w0, states, targets) ==
    IF w0 = ZeroMatrix(Len(targets[1]), Len(states[1])) /\ <<states, targets>> \in TrainArgs
    THEN (CHOOSE p \in FromZero : p[1] = <<states, targets>>)[2]
    ELSE TrainEpochs(w0, states, targets, Epochs, Len(states[1]), Len(targets[1]))

TrainValidation_EmptyFirst(states, targets) ==
    IF Len(states) = 0 THEN "EmptyInput"
    ELSE IF Len(states) # Len(targets) THEN "SizeMismatch"
    ELSE ""
\* trainOutput's validation: "" when the arguments pass.
TrainValidation(states, targets) ==
    IF Len(states) # Len(targets) THEN "SizeMismatch"
    ELSE IF Len(states) = 0 THEN "EmptyInput"
    ELSE ""

\* esn.trained after a trainOutput whose passes completed.
TrainedAfterTraining_Toggle(old) == ~old
TrainedAfterTraining(old) == TRUE

TrainOutputBody(states, targets) ==
    /\ ~crashed
    /\ nTrained < MaxTrainings
    /\ LET invalid == TrainValidation(states, targets)
       IN  IF invalid # ""
           THEN /\ ret' = [op |-> "trainOutput", err |-> invalid,
                           arg |-> <<states, targets>>, val |-> <<>>]
                /\ UNCHANGED <<outputWeights, trained, crashed, nTrained>>
           ELSE LET w0  == InitialOutputWeights(outputWeights, Len(targets[1]), Len(states[1]))
                    fit == GradientDescent(w0, states, targets)
                IN  /\ outputWeights' = fit.w
                    /\ trained' = IF fit.panic THEN trained ELSE TrainedAfterTraining(trained)
                    /\ crashed' = fit.panic
                    /\ nTrained' = IF fit.panic THEN nTrained ELSE nTrained + 1
                    /\ ret' = [op |-> "trainOutput", err |-> IF fit.panic THEN "panic" ELSE "ok",
                               arg |-> <<states, targets>>, val |-> <<>>]
    /\ UNCHANGED <<inputWeights, reservoirWeights, state, membranes, rng, nDraws, held>>
    /\ UNCHANGED memVars

TrainOutput(states, targets) == TrainOutputBody(states, targets) /\ UNCHANGED lockVars

\* The dot products of predict: row i reads w[i][1..len(state)] and panics
\* (index out of range) when the row is shorter than the state.
PredictOutput(w, st) ==
    IF \E i \in 1..Len(w) : Len(w[i]) < Len(st)
    THEN [panic |-> TRUE, output |-> <<>>]
    ELSE [panic  |-> FALSE,
          output |-> [i \in 1..Len(w) |->
                         SumSeq([j \in 1..Len(st) |-> FMul(w[i][j], st[j])])]]

\* predict's precondition: the error it returns before computing, "" if none.
PredictPrecondition(isTrained, w) ==
    IF ~isTrained THEN "NotTrained"
    ELSE ""

PredictBody ==
    /\ ~crashed
    /\ LET refused == PredictPrecondition(trained, outputWeights)
           out     == PredictOutput(outputWeights, state)
       IN  IF refused # ""
           THEN /\ ret' = [op |-> "predict", err |-> refused, arg |-> <<>>, val |-> <<>>]
                /\ UNCHANGED crashed
           ELSE /\ ret' = [op |-> "predict", err |-> IF out.panic THEN "panic" ELSE "ok",
                           arg |-> <<>>, val |-> out.output]
                /\ crashed' = out.panic
    /\ UNCHANGED <<inputWeights, reservoirWeights, outputWeights, state, membranes,
                   rng, trained, nDraws, nTrained, held>>
    /\ UNCHANGED memVars

Predict == PredictBody /\ UNCHANGED lockVars

-----------------------------------------------------------------------------
(* The callers' inputs *)

\* Input vectors of update.
Inputs == {ConstRow(d, v) : d \in 1..MaxInputDim, v \in {Frac(1, 2), Scale}}

\* No second engine.
NoTwin == [n |-> 0]

\* No membrane hierarchy and no second engine beside the engine.
NoMembraneSystem ==
    /\ All = <<>>
    /\ StepCount = 0
    /\ mret = [op |-> "none", err |-> "ok", arg |-> <<>>, val |-> <<>>, log |-> <<>>]
    /\ twin = NoTwin

-----------------------------------------------------------------------------
(* The engine driven through its public operations *)

Init ==
    /\ \E seed \in Seeds : NewESN(seed)
    /\ NoMembraneSystem

Next ==
    \/ \E input \in Inputs : Update(input)
    \/ \E inputDim \in 0..MaxInputDim : SetInputWeights(inputDim)
    \/ GetState
    \/ Reset
    \/ \E a \in ShapedTrainArgs : TrainOutput(a[1], a[2])
    \/ Predict

Spec == Init /\ [][Next]_vars

\* The engine trained with rows of every width, and updated with one input.
NextTrain ==
    \/ Update(ConstRow(1, Scale))
    \/ SetInputWeights(1)
    \/ GetState
    \/ Reset
    \/ \E a \in TrainArgs : TrainOutput(a[1], a[2])
    \/ Predict

SpecTrain == Init /\ [][NextTrain]_vars

-----------------------------------------------------------------------------
(* Properties of the engine *)

\* C1: update(input) on an engine whose input weights exist, with an input
\* whose length differs from the established input dimension, fails with
\* DimensionMismatch and leaves the state vector, the input weights, the
\* reservoir weights, the output weights and the trained flag as they were.
C1_UpdateMismatchFails ==
    [][(/\ ret'.op = "update"
        /\ Len(inputWeights) > 0
        /\ Len(ret'.arg) # Len(inputWeights[1]))
       => (/\ ret'.err = "DimensionMismatch"
           /\ state' = state
           /\ inputWeights' = inputWeights
           /\ reservoirWeights' = reservoirWeights
           /\ outputWeights' = outputWeights
           /\ trained' = trained)]_vars

\* An update was refused for its dimension on an engine that an earlier
\* update had driven away from the zero state.
C1_Witness ==
    /\ ret.op = "update"
    /\ ret.err = "DimensionMismatch"
    /\ Len(inputWeights) > 0
    /\ Len(ret.arg) # Len(inputWeights[1])
    /\ \E i \in 1..Len(state) : state[i] # 0

\* C2: predict fails with NotTrained exactly while no trainOutput call has
\* returned successfully: the trained flag is false after construction, is
\* true once a trainOutput has succeeded and is never cleared, a failed
\* trainOutput leaves it as it was, and predict answers NotTrained exactly
\* when the flag is false.
C2_NotTrainedUntilTrained ==
    /\ [](trained <=> nTrained > 0)
    /\ [](ret.op = "predict" => (ret.err = "NotTrained" <=> nTrained = 0))
    /\ [][(ret'.op = "trainOutput" /\ ret'.err # "ok") => trained' = trained]_vars

\* predict answered, and not with NotTrained, on an engine that two
\* successful trainOutput calls had trained.
C2_Witness ==
    /\ ret.op = "predict"
    /\ ret.err = "ok"
    /\ nTrained = 2
    /\ trained

\* C3: reset makes every component of the state vector zero and changes
\* nothing else: input weights (and with them the established input
\* dimension), reservoir weights, output weights and the trained flag stay.
C3_ResetZeroesStateOnly ==
    [][ret'.op = "reset"
       => (/\ Len(state') = Len(state)
           /\ \A i \in 1..Len(state') : state'[i] = 0
           /\ inputWeights' = inputWeights
           /\ reservoirWeights' = reservoirWeights
           /\ outputWeights' = outputWeights
           /\ membranes' = membranes
           /\ trained' = trained)]_vars

\* reset returned on a trained engine with input weights in place.
C3_Witness ==
    /\ ret.op = "reset"
    /\ trained
    /\ nTrained > 0
    /\ nDraws > 0
    /\ Len(inputWeights) > 0
    /\ \A i \in 1..Len(state) : state[i] = 0

\* C4, as stated: whenever trainOutput is given as many state rows as target
\* rows, and at least one, it returns success with trained set and the
\* process running, whatever the widths of the rows.
C4_TrainOutputNeverAborts ==
    (/\ ret.op = "trainOutput"
     /\ Len(ret.arg[1]) = Len(ret.arg[2])
     /\ Len(ret.arg[1]) >= 1)
    => (ret.err = "ok" /\ trained /\ ~crashed)

\* The dot product of an output-weight row with the state.
Dot(row, st) == SumSeq([j \in 1..Len(st) |-> FMul(row[j], st[j])])

\* C5, as stated: on a trained engine predict returns normally, one entry
\* per output row, each the dot product of the row with the state, whatever
\* the width of the rows trainOutput was given.
C5_PredictNeverCrashes ==
    (ret.op = "predict" /\ trained)
    => (/\ ret.err = "ok"
        /\ ~crashed
        /\ Len(ret.val) = Len(outputWeights)
        /\ \A i \in 1..Len(outputWeights) : ret.val[i] = Dot(outputWeights[i], state))

\* Whether trainOutput(states, targets) finds a matrix of its own shape.
SameShape(w, states, targets) ==
    /\ Len(w) = Len(targets[1])
    /\ \A i \in 1..Len(w) : Len(w[i]) = Len(states[1])

\* C6, as stated: a successful trainOutput on an engine already trained
\* leaves the weights that the passes give when started from the matrix the
\* engine held before the call.
C6_RetrainingResumes ==
    [][(/\ ret'.op = "trainOutput"
        /\ ret'.err = "ok"
        /\ trained
        /\ SameShape(outputWeights, ret'.arg[1], ret'.arg[2]))
       => outputWeights' = TrainEpochs(outputWeights, ret'.arg[1], ret'.arg[2], Epochs,
                                       Len(ret'.arg[1][1]), Len(ret'.arg[2][1])).w]_vars

\* C6, amended: a successful trainOutput(S, T) leaves the weights that the
\* passes give when started from the all-zero matrix, whatever matrix the
\* engine held before the call.
C6_RetrainingStartsFromZero ==
    [][(ret'.op = "trainOutput" /\ ret'.err = "ok")
       => outputWeights' =
              GradientDescent(ZeroMatrix(Len(ret'.arg[2][1]), Len(ret'.arg[1][1])),
                              ret'.arg[1], ret'.arg[2]).w]_vars

\* A second successful trainOutput has returned, with one sample where the
\* first had two.
C6_Witness ==
    /\ ret.op = "trainOutput"
    /\ ret.err = "ok"
    /\ nTrained = 2
    /\ Len(ret.arg[1]) = 1
    /\ Len(outputWeights) = 1
    /\ Len(outputWeights[1]) = ReservoirSize

-----------------------------------------------------------------------------
(* Membranes: objects, rules, evolve, passObjects                           *)

Obj(type, value, charge, mobility) ==
    [Type |-> type, Value |-> value, Charge |-> charge, Mobility |-> mobility]

\* NewMembrane; Parent and Children are registry indices, Parent 0 is nil.
NewMembrane(id, level, permeability) ==
    [ID |-> id, Level |-> level, Permeability |-> permeability,
     Objects |-> <<>>, Rules |-> <<>>, Parent |-> 0, Children |-> <<>>]

\* CreateDefaultRules; Transform names the rule's transform function.
CreateDefaultRules ==
    << [Name |-> "spam_detection", Priority |-> 100,
        InputTypes |-> <<"token", "negative_signal">>,
        OutputTypes |-> <<"spam_score">>, Transform |-> "spam_detection"],
       [Name |-> "ham_detection", Priority |-> 100,
        InputTypes |-> <<"token", "positive_signal">>,
        OutputTypes |-> <<"ham_score">>, Transform |-> "ham_detection"],
       [Name |-> "affective_modulation", Priority |-> 50,
        InputTypes |-> <<"emotion_signal">>,
        OutputTypes |-> <<"modulated_signal">>, Transform |-> "affective_modulation"] >>

\* The value a detection transform sums an input object in with.
SpamContribution_Any(obj) == obj.Value
SpamContribution(obj) == IF obj.Charge < 0 THEN obj.Value ELSE 0

HamContribution(obj) == IF obj.Charge > 0 THEN obj.Value ELSE 0

\* rule.Transform(objs); a nil transform ("") produces nothing.
Transform(name, objs) ==
    IF name = "spam_detection"
    THEN << Obj("spam_score",
                SumSeq([k \in 1..Len(objs) |-> SpamContribution(objs[k])]),
                -1, Frac(8, 10)) >>
    ELSE IF name = "ham_detection"
    THEN << Obj("ham_score",
                SumSeq([k \in 1..Len(objs) |-> HamContribution(objs[k])]),
                1, Frac(8, 10)) >>
    ELSE IF name = "affective_modulation"
    THEN [k \in 1..Len(objs) |->
             [objs[k] EXCEPT !.Value = FMul(@, Frac(11, 10)), !.Type = "modulated_signal"]]
    ELSE <<>>

\* The inner loop of the exchange sort: positions j.. against position i.
RECURSIVE SortInner(_, _, _)
SortInner(rules, i, j) ==
    IF j > Len(rules) THEN rules
    ELSE IF rules[j].Priority > rules[i].Priority
         THEN SortInner([rules EXCEPT ![i] = rules[j], ![j] = rules[i]], i, j + 1)
         ELSE SortInner(rules, i, j + 1)

RECURSIVE SortOuter(_, _)
SortOuter(rules, i) ==
    IF i > Len(rules) THEN rules
    ELSE SortOuter(SortInner(rules, i, i + 1), i + 1)

\* Evolve's copy of the rules, ordered by the exchange sort.
SortRules_Unsorted(rules) == rules
SortRules(rules) == SortOuter(rules, 1)

SeqToSet(s) == {s[k] : k \in 1..Len(s)}

\* findMatches' scan from object i on: the first unused object of each type
\* still needed joins the match; <<match>> once no type is needed, <<>> if
\* the objects run out first.
RECURSIVE ScanMatch(_, _, _, _, _)
ScanMatch(objects, used, i, typeNeeded, match) ==
    IF i > Len(objects) THEN <<>>
    ELSE IF i \in used \/ objects[i].Type \notin typeNeeded
         THEN ScanMatch(objects, used, i + 1, typeNeeded, match)
         ELSE IF typeNeeded \ {objects[i].Type} = {}
              THEN << Append(match, i) >>
              ELSE ScanMatch(objects, used, i + 1, typeNeeded \ {objects[i].Type},
                             Append(match, i))

findMatches_PerOccurrence(objects, rule, used) ==
    IF Len(rule.InputTypes) # Cardinality(SeqToSet(rule.InputTypes)) THEN <<>>
    ELSE ScanMatch(objects, used, 1, SeqToSet(rule.InputTypes), <<>>)
findMatches(objects, rule, used) ==
    IF Len(rule.InputTypes) = 0 THEN <<>>
    ELSE ScanMatch(objects, used, 1, SeqToSet(rule.InputTypes), <<>>)

\* Evolve's loop over the sorted rules from rule r on.  fired lists, for
\* every rule that matched, its position, the object indices it was handed
\* and what its transform returned.
RECURSIVE ApplyRules(_, _, _, _, _, _)
ApplyRules(objects, sortedRules, r, used, newObjects, fired) ==
    IF r > Len(sortedRules)
    THEN [used |-> used, newObjects |-> newObjects, fired |-> fired]
    ELSE LET matches == findMatches(objects, sortedRules[r], used)
         IN  IF matches = <<>>
             THEN ApplyRules(objects, sortedRules, r + 1, used, newObjects, fired)
             ELSE LET match     == matches[1]
                      inputObjs == [k \in 1..Len(match) |-> objects[match[k]]]
                      out       == Transform(sortedRules[r].Transform, inputObjs)
                  IN  ApplyRules(objects, sortedRules, r + 1,
                                 used \cup SeqToSet(match),
                                 newObjects \o out,
                                 Append(fired, [rule |-> r, match |-> match, out |-> out]))

RECURSIVE Unused(_, _, _)
Unused(objects, used, i) ==
    IF i > Len(objects) THEN <<>>
    ELSE (IF i \in used THEN <<>> ELSE <<objects[i]>>) \o Unused(objects, used, i + 1)

\* Membrane.Evolve: the membrane's objects after one evolution.
Evolve_NewFirst(m) ==
    LET done == ApplyRules(m.Objects, SortRules(m.Rules), 1, {}, <<>>, <<>>)
    IN  done.newObjects \o Unused(m.Objects, done.used, 1)
Evolve_KeepInputs(m) ==
    LET done == ApplyRules(m.Objects, SortRules(m.Rules), 1, {}, <<>>, <<>>)
    IN  m.Objects \o done.newObjects
Evolve(m) ==
    LET done == ApplyRules(m.Objects, SortRules(m.Rules), 1, {}, <<>>, <<>>)
    IN  Unused(m.Objects, done.used, 1) \o done.newObjects

\* The rules that matched in Evolve(m), in the order they were tried.
Fired(m) == ApplyRules(m.Objects, SortRules(m.Rules), 1, {}, <<>>, <<>>).fired

\* The pass probability of PassObjects.
PassProb(permeability, obj) ==
    LET passProb == FMul(permeability, obj.Mobility)
    IN  IF Abs(obj.Charge) > 0 THEN FMul(passProb, Frac(12, 10)) ELSE passProb

\* if passProb > 0.5
Passes_AtLeast(permeability, obj) == PassProb(permeability, obj) >= Frac(1, 2)
Passes(permeability, obj) == PassProb(permeability, obj) > Frac(1, 2)

RECURSIVE Select(_, _, _, _)
Select(objects, permeability, passing, i) ==
    IF i > Len(objects) THEN <<>>
    ELSE (IF Passes(permeability, objects[i]) = passing THEN <<objects[i]>> ELSE <<>>)
         \o Select(objects, permeability, passing, i + 1)

PassObjects_Prepend(all, source, target) ==
    LET objects   == all[source].Objects
        moved     == Select(objects, all[source].Permeability, TRUE, 1)
        remaining == Select(objects, all[source].Permeability, FALSE, 1)
        added     == [all EXCEPT ![target].Objects = moved \o @]
    IN  [added EXCEPT ![source].Objects = remaining]
\* Membrane.PassObjects on registry members source and target (target # 0):
\* the registry afterwards.  The objects that pass are appended to the
\* target, then the source keeps the rest (also when target is the source).
PassObjects(all, source, target) ==
    LET objects   == all[source].Objects
        moved     == Select(objects, all[source].Permeability, TRUE, 1)
        remaining == Select(objects, all[source].Permeability, FALSE, 1)
        added     == [all EXCEPT ![target].Objects = @ \o moved]
    IN  [added EXCEPT ![source].Objects = remaining]

-----------------------------------------------------------------------------
(* The membrane system: NewMembraneSystem, Step, InjectObject, CollectResults *)

\* buildHierarchy: two children per parent below maxDepth, each registered,
\* given the default rules and its own subtree before its sibling is made.
RECURSIVE buildHierarchy(_, _, _, _)
buildHierarchy(all, parent, maxDepth, currentDepth) ==
    IF parent > Len(all) \/ currentDepth >= maxDepth THEN all
    ELSE LET MakeChild(a, i) ==
                 LET id    == a[parent].ID \o "_" \o ToString(i)
                     perm  == Frac(1, 2) + Frac(1, 10) * currentDepth
                     child == [NewMembrane(id, currentDepth, perm) EXCEPT
                                  !.Parent = parent, !.Rules = CreateDefaultRules]
                     idx   == Len(a) + 1
                 IN  buildHierarchy(
                         Append([a EXCEPT ![parent].Children = Append(@, idx)], child),
                         idx, maxDepth, currentDepth + 1)
         IN  MakeChild(MakeChild(all, 0), 1)

NewMembraneSystem_Shallow(depth) ==
    buildHierarchy(<<NewMembrane("root", 0, Scale)>>, 1, depth - 1, 1)
NewMembraneSystem(depth) ==
    buildHierarchy(<<NewMembrane("root", 0, Scale)>>, 1, depth, 1)

\* The passes of one membrane in Step: to its parent if it has one, then to
\* each child in child order.
MembranePasses_ChildrenFirst(all, i) ==
    [c \in 1..Len(all[i].Children) |-> <<"pass", i, all[i].Children[c]>>]
    \o (IF all[i].Parent # 0 THEN << <<"pass", i, all[i].Parent>> >> ELSE <<>>)
MembranePasses(all, i) ==
    (IF all[i].Parent # 0 THEN << <<"pass", i, all[i].Parent>> >> ELSE <<>>)
    \o [c \in 1..Len(all[i].Children) |-> <<"pass", i, all[i].Children[c]>>]

\* The passes of the membranes lo..hi, membrane after membrane (those of the
\* first half of them, then those of the rest).
RECURSIVE PassRange(_, _, _)
PassRange(all, lo, hi) ==
    IF lo > hi THEN <<>>
    ELSE IF lo = hi THEN MembranePasses(all, lo)
    ELSE PassRange(all, lo, (lo + hi) \div 2) \o PassRange(all, (lo + hi) \div 2 + 1, hi)

PassPhase(all, i) == PassRange(all, i, Len(all))

EvolvePhase(all) == [i \in 1..Len(all) |-> <<"evolve", i>>]

\* The calls Step makes, in the order it makes them.
StepCalls_PassFirst(all) == PassPhase(all, 1) \o EvolvePhase(all)
StepCalls(all) == EvolvePhase(all) \o PassPhase(all, 1)

\* One call of Step on the registry.
RunCall(all, c) ==
    IF c[1] = "evolve"
    THEN [all EXCEPT ![c[2]].Objects = Evolve(all[c[2]])]
    ELSE PassObjects(all, c[2], c[3])

\* The calls lo..hi of Step made one after the other, each on the registry
\* as the calls before it left it (the first half of them, then the rest).
RECURSIVE RunRange(_, _, _, _)
RunRange(all, calls, lo, hi) ==
    IF lo > hi THEN all
    ELSE IF lo = hi THEN RunCall(all, calls[lo])
    ELSE LET mid   == (lo + hi) \div 2
             first == RunRange(all, calls, lo, mid)
         IN  IF Len(first) = Len(all)   \* no call adds or removes a membrane
             THEN RunRange(first, calls, mid + 1, hi)
             ELSE first

\* The calls k.. of Step made one after the other.
RunCalls(all, calls, k) == RunRange(all, calls, k, Len(calls))

Lookup_Fallback(all, membraneID) ==
    IF \E i \in 1..Len(all) : all[i].ID = membraneID
    THEN CHOOSE i \in 1..Len(all) : all[i].ID = membraneID
    ELSE 1
\* The registry index of the first membrane with this ID, 0 if none.
Lookup(all, membraneID) ==
    IF \E i \in 1..Len(all) : all[i].ID = membraneID
    THEN CHOOSE i \in 1..Len(all) :
             /\ all[i].ID = membraneID
             /\ \A j \in 1..(i - 1) : all[j].ID # membraneID
    ELSE 0

\* MembraneSystem.CollectResults
RECURSIVE CollectRange(_, _, _)
CollectRange(all, lo, hi) ==
    IF lo > hi THEN <<>>
    ELSE IF lo = hi THEN (IF Len(all[lo].Children) = 0 THEN all[lo].Objects ELSE <<>>)
    ELSE CollectRange(all, lo, (lo + hi) \div 2)
         \o CollectRange(all, (lo + hi) \div 2 + 1, hi)

CollectFrom(all, i) == CollectRange(all, i, Len(all))

CollectResultsOf_Everywhere(all) ==
    CollectFrom([i \in 1..Len(all) |-> [all[i] EXCEPT !.Children = <<>>]], 1)
CollectResultsOf(all) == CollectFrom(all, 1)

-----------------------------------------------------------------------------
(* Calls on membranes and on the membrane system                            *)

MaxObjects == 2

MaxSteps == 3

\* DefaultFilterConfig().MembraneDepth
MembraneDepth == 3

\* The objects callers add: those of processMembraneSystem and of the
\* package's tests, and objects at the edges of the transport threshold.
InjectSet ==
    { Obj("token", Scale, 0, Frac(5, 10)),
      Obj("token", Frac(5, 10), -1, Scale),
      Obj("negative_signal", Frac(15, 10), -1, Frac(9, 10)),
      Obj("positive_signal", Scale, 1, Frac(7, 10)),
      Obj("emotion_signal", Scale, 0, Scale),
      Obj("test", Scale, 1, 0) }

Permeabilities == {0, Frac(5, 10), Frac(6, 10), Scale}

RECURSIVE CountRange(_, _, _)
CountRange(all, lo, hi) ==
    IF lo > hi THEN 0
    ELSE IF lo = hi THEN Len(all[lo].Objects)
    ELSE CountRange(all, lo, (lo + hi) \div 2) + CountRange(all, (lo + hi) \div 2 + 1, hi)

CountFrom(all, i) == CountRange(all, i, Len(all))

\* How many objects the membranes hold together.
ObjectCount(all) == CountFrom(all, 1)

\* No engine is constructed where only membranes are used.
NoEngine ==
    /\ inputWeights = <<>>
    /\ reservoirWeights = <<>>
    /\ outputWeights = <<>>
    /\ state = <<>>
    /\ membranes = <<>>
    /\ rng = 0
    /\ trained = FALSE
    /\ crashed = FALSE
    /\ ret = [op |-> "none", err |-> "ok", arg |-> <<>>, val |-> <<>>]
    /\ nDraws = 0
    /\ nTrained = 0
    /\ held = NoSlice
    /\ NoThreads
    /\ twin = NoTwin

MCall(op, err, arg, val, log) ==
    [op |-> op, err |-> err, arg |-> arg, val |-> val, log |-> log]

\* Membrane.AddChild on registry members
AddChild(all, parent, child) ==
    [all EXCEPT ![child].Parent = parent, ![parent].Children = Append(@, child)]

\* Two membranes made with NewMembrane, each given the default rules with
\* AddRule, the second added to the first as its child.
TwoMembranes(permeability) ==
    AddChild(<< [NewMembrane("outer", 0, permeability) EXCEPT !.Rules = CreateDefaultRules],
                [NewMembrane("inner", 1, Frac(5, 10)) EXCEPT !.Rules = CreateDefaultRules] >>,
             1, 2)

\* Membrane.AddObject on registry member i
AddObject(i, obj) ==
    /\ ObjectCount(All) < MaxObjects
    /\ All' = [All EXCEPT ![i].Objects = Append(@, obj)]
    /\ mret' = MCall("addObject", "ok", <<i>>, <<>>, <<>>)
    /\ UNCHANGED StepCount
    /\ UNCHANGED esnVars

\* Membrane.Evolve on registry member i
MembraneEvolve(i) ==
    /\ All' = [All EXCEPT ![i].Objects = Evolve(All[i])]
    /\ mret' = MCall("evolve", "ok", <<i>>, <<>>, Fired(All[i]))
    /\ UNCHANGED StepCount
    /\ UNCHANGED esnVars

\* Membrane.PassObjects on registry member i, target 0 being nil
MembranePassObjects(i, target) ==
    /\ IF target = 0
       THEN /\ mret' = MCall("passObjects", "target membrane is nil", <<i, target>>, <<>>, <<>>)
            /\ UNCHANGED All
       ELSE /\ All' = PassObjects(All, i, target)
            /\ mret' = MCall("passObjects", "ok", <<i, target>>, <<>>, All[i].Objects)
    /\ UNCHANGED StepCount
    /\ UNCHANGED esnVars

\* MembraneSystem.InjectObject
InjectObject(membraneID, obj) ==
    /\ LET i == Lookup(All, membraneID)
       IN  IF i = 0
           THEN /\ mret' = MCall("injectObject", "not found", <<membraneID, obj>>, <<>>, <<>>)
                /\ UNCHANGED All
           ELSE /\ All' = [All EXCEPT ![i].Objects = Append(@, obj)]
                /\ mret' = MCall("injectObject", "ok", <<membraneID, obj>>, <<>>, <<>>)
    /\ UNCHANGED StepCount
    /\ UNCHANGED esnVars

\* threshold := 10
DissolutionThreshold == 10

\* Membrane.ComputeDissolution: whether the charged objects outnumber the
\* threshold.
ComputeDissolution_AtThreshold(m) ==
    Cardinality({k \in 1..Len(m.Objects) : m.Objects[k].Charge # 0}) >= DissolutionThreshold
ComputeDissolution(m) ==
    Cardinality({k \in 1..Len(m.Objects) : m.Objects[k].Charge # 0}) > DissolutionThreshold

\* Membrane.ComputeDissolution on registry member i
MembraneComputeDissolution(i) ==
    /\ mret' = MCall("computeDissolution", "ok", <<i>>, <<ComputeDissolution(All[i])>>, <<>>)
    /\ UNCHANGED <<All, StepCount>>
    /\ UNCHANGED esnVars

\* MembraneSystem.Step; log is the calls it made on the membranes, in order.
Step ==
    /\ StepCount < MaxSteps
    /\ LET calls == StepCalls(All)
       IN  /\ All' = RunCalls(All, calls, 1)
           /\ mret' = MCall("step", "ok", <<>>, <<>>, calls)
    /\ StepCount' = StepCount + 1
    /\ UNCHANGED esnVars

\* MembraneSystem.CollectResults
CollectResults ==
    /\ mret' = MCall("collectResults", "ok", <<>>, CollectResultsOf(All), <<>>)
    /\ UNCHANGED <<All, StepCount>>
    /\ UNCHANGED esnVars

InitMembrane ==
    /\ NoEngine
    /\ \E p \in Permeabilities : All = TwoMembranes(p)
    /\ StepCount = 0
    /\ mret = MCall("new", "ok", <<>>, <<>>, <<>>)

NextMembrane ==
    \/ \E i \in 1..2, obj \in InjectSet : AddObject(i, obj)
    \/ \E i \in 1..2 : MembraneEvolve(i)
    \/ \E i \in 1..2, target \in 0..2 : i # target /\ MembranePassObjects(i, target)

SpecMembrane == InitMembrane /\ [][NextMembrane]_vars

\* The membrane IDs callers inject at: the root, an inner membrane, a leaf,
\* and an ID no membrane has.
InjectIDs == {"root", "root_0", "root_1_1", "missing"}

InitSystem ==
    /\ NoEngine
    /\ All = NewMembraneSystem(MembraneDepth)
    /\ StepCount = 0
    /\ mret = MCall("new", "ok", <<>>, <<>>, <<>>)

NextSystem ==
    \/ \E id \in InjectIDs, obj \in InjectSet :
          ObjectCount(All) < MaxObjects /\ InjectObject(id, obj)
    \/ Step
    \/ CollectResults

SpecSystem == InitSystem /\ [][NextSystem]_vars

\* Hierarchies of every depth from 0 to MaxBuildDepth.
MaxBuildDepth == 7

\* Objects injected into hierarchies of any depth: one that stays where it
\* is put and one that moves.
BuildSet ==
    { Obj("test", Scale, 1, 0),
      Obj("negative_signal", Frac(15, 10), -1, Frac(9, 10)) }

InitBuild ==
    /\ NoEngine
    /\ \E depth \in 0..MaxBuildDepth :
          /\ All = NewMembraneSystem(depth)
          /\ mret = MCall("new", "ok", <<depth>>, <<>>, <<>>)
    /\ StepCount = 0

\* The membrane IDs injected at in hierarchies of any depth: the root, its
\* two children, which are absent, leaves or inner membranes according to
\* the depth, and an ID no membrane has.
BuildIDs == {"root", "root_0", "root_1", "missing"}

\* Steps are taken on the hierarchies of up to this depth.
MaxStepDepth == 4

NextBuild ==
    \/ \E id \in BuildIDs, obj \in BuildSet :
          ObjectCount(All) < MaxObjects /\ InjectObject(id, obj)
    \/ Len(All) < Pow2(MaxStepDepth) /\ Step
    \/ CollectResults
    \/ \E i \in {1, Len(All)} : MembraneComputeDissolution(i)

SpecBuild == InitBuild /\ [][NextBuild]_vars

\* The root of the default hierarchy filled beyond the dissolution
\* threshold.
MaxHeld == 11

\* Steps taken on the filled hierarchy.
MaxDissolveSteps == 1

\* A charged and an uncharged object that stay in the root.
DissolveSet ==
    { Obj("test", Scale, 1, 0),
      Obj("token", Scale, 0, Frac(5, 10)) }

InitDissolve ==
    /\ NoEngine
    /\ All = NewMembraneSystem(MembraneDepth)
    /\ StepCount = 0
    /\ mret = MCall("new", "ok", <<MembraneDepth>>, <<>>, <<>>)

NextDissolve ==
    \/ \E obj \in DissolveSet :
          ObjectCount(All) < MaxHeld /\ InjectObject("root", obj)
    \/ StepCount < MaxDissolveSteps /\ Step
    \/ \E i \in {1, Len(All)} : MembraneComputeDissolution(i)

SpecDissolve == InitDissolve /\ [][NextDissolve]_vars

-----------------------------------------------------------------------------
(* Properties of membranes and of the membrane system *)

\* Whether evolve on a membrane finds one token and one negative_signal of
\* charge -1, in either order, and exactly the default rules.
TokenAndNegativeSignal(m) ==
    /\ Len(m.Objects) = 2
    /\ {m.Objects[1].Type, m.Objects[2].Type} = {"token", "negative_signal"}
    /\ \A k \in 1..2 : m.Objects[k].Type = "negative_signal" => m.Objects[k].Charge = -1
    /\ m.Rules = CreateDefaultRules

\* The one object of the given type among a membrane's two objects.
TheObject(m, type) == CHOOSE o \in SeqToSet(m.Objects) : o.Type = type

\* C7, as stated: evolve on a membrane holding one token and one
\* negative_signal of charge -1 and value v, with the default rules, leaves
\* exactly one object: a spam_score of charge -1 and value v.
C7_SpamScoreCarriesSignalValue ==
    [][(mret'.op = "evolve" /\ TokenAndNegativeSignal(All[mret'.arg[1]]))
       => LET i == mret'.arg[1]
          IN  /\ Len(All'[i].Objects) = 1
              /\ All'[i].Objects[1].Type = "spam_score"
              /\ All'[i].Objects[1].Charge = -1
              /\ All'[i].Objects[1].Value = TheObject(All[i], "negative_signal").Value]_vars

\* C7, amended: the spam_score left has charge -1, mobility 0.8, and as
\* value the sum of the values of the inputs of negative charge: v, plus the
\* token's value when the token's charge is negative.
C7_SpamScoreSumsNegativeInputs ==
    [][(mret'.op = "evolve" /\ TokenAndNegativeSignal(All[mret'.arg[1]]))
       => LET i     == mret'.arg[1]
              token == TheObject(All[i], "token")
              v     == TheObject(All[i], "negative_signal").Value
          IN  /\ Len(All'[i].Objects) = 1
              /\ All'[i].Objects[1].Type = "spam_score"
              /\ All'[i].Objects[1].Charge = -1
              /\ All'[i].Objects[1].Mobility = Frac(8, 10)
              /\ All'[i].Objects[1].Value =
                     IF token.Charge < 0 THEN v + token.Value ELSE v]_vars

\* evolve has turned a token of charge -1 and value 0.5 and a negative_signal
\* of value 1.5 into one spam_score of value 2.0.
C7_Witness ==
    /\ mret.op = "evolve"
    /\ All[mret.arg[1]].Objects = <<Obj("spam_score", Frac(20, 10), -1, Frac(8, 10))>>

\* permeability * mobility * (1.2 if charge != 0 else 1.0) > 0.5, in exact
\* arithmetic on the fixed-point operands.
MovesByFormula(permeability, obj) ==
    permeability * obj.Mobility * (IF obj.Charge # 0 THEN 12 ELSE 10) > 5 * Scale * Scale

\* C8: passObjects moves exactly the objects for which
\* permeability * mobility * (1.2 if charged) > 0.5, appending them to the
\* target in order and keeping the others in order; an object of mobility 1.0
\* and nonzero charge leaves a membrane of permeability 1.0, and an object of
\* mobility 0 stays whatever the permeability and the charge.
C8_PassIsThreshold ==
    [][(mret'.op = "passObjects" /\ mret'.err = "ok")
       => LET i      == mret'.arg[1]
              target == mret'.arg[2]
              perm   == All[i].Permeability
              Moves(o) == MovesByFormula(perm, o)
              Stays(o) == ~MovesByFormula(perm, o)
          IN  /\ All'[target].Objects = All[target].Objects \o SelectSeq(All[i].Objects, Moves)
              /\ All'[i].Objects = SelectSeq(All[i].Objects, Stays)
              /\ \A k \in 1..Len(All[i].Objects) :
                    LET o == All[i].Objects[k]
                    IN  /\ (perm = Scale /\ o.Mobility = Scale /\ o.Charge # 0)
                              => o \notin SeqToSet(All'[i].Objects)
                        /\ o.Mobility = 0 => o \in SeqToSet(All'[i].Objects)]_vars

\* passObjects from a membrane of permeability 0.6 has moved the charged
\* object of mobility 0.7 and kept the uncharged one of mobility 0.5.
C8_Witness ==
    /\ mret.op = "passObjects"
    /\ mret.err = "ok"
    /\ mret.arg = <<1, 2>>
    /\ All[1].Permeability = Frac(6, 10)
    /\ All[1].Objects = <<Obj("token", Scale, 0, Frac(5, 10))>>
    /\ All[2].Objects = <<Obj("positive_signal", Scale, 1, Frac(7, 10))>>

\* The position of a pass target among the passes of its source: 0 for the
\* parent, c for the c-th child.
TargetRank(all, source, target) ==
    IF target = all[source].Parent THEN 0
    ELSE CHOOSE c \in 1..Len(all[source].Children) : all[source].Children[c] = target

\* The membranes a membrane passes to in one step.
PassTargets(all, i) ==
    (IF all[i].Parent # 0 THEN {all[i].Parent} ELSE {}) \cup SeqToSet(all[i].Children)

\* C9: one systemStep calls evolve on every membrane in registry order
\* before any pass; then passes membrane by membrane in registry order, to
\* the parent before the children and to the children in child order, once
\* each; the passes work on the lists as the earlier ones left them, so the
\* step hands on every object there is after the evolutions exactly once;
\* and the step counter grows by one with each step and with nothing else.
C9_StepOrder ==
    [][/\ mret'.op # "step" => StepCount' = StepCount
       /\ mret'.op = "step" =>
            LET log    == mret'.log
                n      == Len(All)
                passes == (n + 1)..Len(log)
            IN  /\ StepCount' = StepCount + 1
                /\ Len(log) >= n
                /\ \A k \in 1..n : log[k] = <<"evolve", k>>
                /\ \A k \in passes :
                      /\ log[k][1] = "pass"
                      /\ log[k][2] \in 1..n
                      /\ log[k][3] \in PassTargets(All, log[k][2])
                /\ \A p, q \in passes :
                      p < q => \/ log[p][2] < log[q][2]
                               \/ /\ log[p][2] = log[q][2]
                                  /\ TargetRank(All, log[p][2], log[p][3])
                                       < TargetRank(All, log[q][2], log[q][3])
                /\ \A i \in 1..n :
                      {log[k][3] : k \in {j \in passes : log[j][2] = i}} = PassTargets(All, i)
                /\ ObjectCount(All') =
                      ObjectCount([i \in 1..n |-> [All[i] EXCEPT !.Objects = Evolve(All[i])]])]_vars

\* The second step has made a spam_score in root_0 out of the two objects
\* the first step had brought there, and passed it on to the root.
C9_Witness ==
    /\ mret.op = "step"
    /\ StepCount = 2
    /\ All[1].Objects = <<Obj("spam_score", Frac(20, 10), -1, Frac(8, 10))>>
    /\ ObjectCount(All) = 1

\* InjectObject at one membrane, object by object.
RECURSIVE InjectAll(_, _, _, _)
InjectAll(all, membraneID, objs, k) ==
    IF k > Len(objs) \/ Lookup(all, membraneID) = 0 THEN all
    ELSE InjectAll([all EXCEPT ![Lookup(all, membraneID)].Objects = Append(@, objs[k])],
                   membraneID, objs, k + 1)

\* n successive systemSteps.
RECURSIVE RunSteps(_, _)
RunSteps(all, n) ==
    IF n = 0 THEN all ELSE RunSteps(RunCalls(all, StepCalls(all), 1), n - 1)

\* C10, as stated: for the hierarchy of depth 3 holding no objects there are
\* objects (up to MaxObjects of them) that, injected at "root" and followed
\* by some number of systemSteps (up to MaxSteps), make collectResults
\* non-empty.
C10_SignalsReachLeaves ==
    ObjectCount(All) = 0
    => \E objs \in SeqsUpTo(InjectSet, MaxObjects), n \in 0..MaxSteps :
           CollectResultsOf(RunSteps(InjectAll(All, "root", objs, 1), n)) # <<>>

\* The registry without the object lists.
Structure(all) == [i \in 1..Len(all) |-> [all[i] EXCEPT !.Objects = <<>>]]

RECURSIVE MaxOf(_)
MaxOf(S) == IF S = {} THEN 0 ELSE LET x == CHOOSE y \in S : TRUE
                                  IN  LET m == MaxOf(S \ {x}) IN IF x > m THEN x ELSE m

\* The number of levels of a registry.
Levels(all) == 1 + MaxOf({all[i].Level : i \in 1..Len(all)})

\* Whether a registry is a complete binary tree in creation order: the root
\* first, 2^levels - 1 membranes, two children named after their parent under
\* every membrane above the last level, none under the last level, distinct
\* IDs, and every other membrane registered after its parent as its child.
CompleteBinaryTree(all) ==
    LET d == Levels(all)
    IN  /\ all[1].ID = "root" /\ all[1].Level = 0 /\ all[1].Parent = 0
        /\ Len(all) = Pow2(d) - 1
        /\ Cardinality({all[i].ID : i \in 1..Len(all)}) = Len(all)
        /\ \A i \in 1..Len(all) :
              IF all[i].Level < d - 1
              THEN /\ Len(all[i].Children) = 2
                   /\ \A c \in 1..2 :
                         LET k == all[i].Children[c]
                         IN  /\ k \in (i + 1)..Len(all)
                             /\ all[k].ID = all[i].ID \o "_" \o ToString(c - 1)
                             /\ all[k].Level = all[i].Level + 1
                             /\ all[k].Parent = i
              ELSE all[i].Children = <<>>
        /\ \A i \in 2..Len(all) :
              /\ all[i].Parent \in 1..(i - 1)
              /\ i \in SeqToSet(all[all[i].Parent].Children)

C14_PermeabilityInUnitRange ==
    \A i \in 1..Len(All) :
        /\ All[i].Permeability \in 0..Scale
        /\ All[i].Permeability = IF All[i].Level = 0 THEN Scale
                                 ELSE Frac(1, 2) + Frac(1, 10) * All[i].Level

\* The registry indexes of the membranes with this ID.
Named(all, membraneID) == {i \in 1..Len(all) : all[i].ID = membraneID}

\* C15: injectObject(id, obj) on a registered ID succeeds and appends obj as
\* the last element of that membrane's object list, changing no other
\* membrane and nothing else of that membrane; on an ID no membrane has it
\* fails with NotFound and changes no membrane.
C15_InjectAppendsOrNotFound ==
    [][(mret'.op = "injectObject") =>
          LET membraneID == mret'.arg[1]
              obj        == mret'.arg[2]
          IN  /\ Len(All') = Len(All)
              /\ IF Named(All, membraneID) = {}
                 THEN mret'.err = "not found" /\ All' = All
                 ELSE /\ mret'.err = "ok"
                      /\ \E i \in Named(All, membraneID) :
                            /\ All'[i].Objects = All[i].Objects \o <<obj>>
                            /\ All'[i].Objects[Len(All'[i].Objects)] = obj
                            /\ \A j \in 1..Len(All) : j # i => All'[j] = All[j]
              /\ Structure(All') = Structure(All)]_vars

\* An object has been injected behind a different one into a membrane
\* below the root.
C15_Witness ==
    /\ mret.op = "injectObject"
    /\ mret.err = "ok"
    /\ \E i \in 2..Len(All) :
          /\ All[i].ID = mret.arg[1]
          /\ Len(All[i].Objects) = 2
          /\ All[i].Objects[2] = mret.arg[2]
          /\ All[i].Objects[1] # mret.arg[2]

\* The registry indexes of the childless membranes.
Leaves(all) == {i \in 1..Len(all) : Len(all[i].Children) = 0}

\* How many objects the childless membranes registered before i hold.
LeafOffset(all, i) ==
    Cardinality({p \in {j \in Leaves(all) : j < i} \X (1..MaxObjects + 1) :
                     p[2] <= Len(all[p[1]].Objects)})

\* Whether r is the object lists of the childless membranes one after the
\* other in registry order.
IsLeafConcatenation(r, all) ==
    /\ Len(r) = LeafOffset(all, Len(all) + 1)
    /\ \A i \in Leaves(all) : \A k \in 1..Len(all[i].Objects) :
          r[LeafOffset(all, i) + k] = all[i].Objects[k]

\* C16: collectResults returns the concatenation, in registry order, of the
\* object lists of exactly the childless membranes and modifies no
\* membrane; on a hierarchy nothing was injected into, of any depth, it
\* returns the empty list.
C16_CollectLeavesInOrder ==
    /\ [](mret.op = "collectResults" => IsLeafConcatenation(mret.val, All))
    /\ [][(mret'.op = "collectResults") =>
             /\ All' = All
             /\ (mret.op = "new" => mret'.val = <<>>)]_vars

\* Results were collected from two leaves that hold different objects while
\* the root holds none.
C16_Witness ==
    /\ mret.op = "collectResults"
    /\ Len(mret.val) = 2
    /\ mret.val[1] # mret.val[2]
    /\ Len(All) = 3
    /\ Len(All[2].Objects) = 1
    /\ Len(All[3].Objects) = 1

\* How many objects of a membrane have a nonzero charge.
ChargedCount(m) == Len(SelectSeq(m.Objects, LAMBDA o : o.Charge # 0))

C18_StateLengthIsReservoirSize ==
    /\ [](Len(state) = N /\ DOMAIN state = 1..params.ReservoirSize)
    /\ []((ret.op = "new" /\ ~crashed) => \A i \in 1..N : state[i] = 0)
    /\ [][Len(state') = Len(state)]_vars

\* getState returns N entries, not all zero, after an update.
C18_Witness ==
    /\ ret.op = "getState"
    /\ Len(ret.val) = N
    /\ \E i \in 1..N : ret.val[i] # 0
    /\ nDraws > 0

\* C20: trainOutput fails with SizeMismatch when the number of states
\* differs from the number of targets and with EmptyInput when both are
\* zero; either failure leaves outputWeights and trained as they were.
C20_TrainOutputRejectsBadCounts ==
    [][(ret'.op = "trainOutput") =>
          LET states  == ret'.arg[1]
              targets == ret'.arg[2]
          IN  /\ Len(states) # Len(targets) =>
                    /\ ret'.err = "SizeMismatch"
                    /\ outputWeights' = outputWeights
                    /\ trained' = trained
              /\ (Len(states) = 0 /\ Len(targets) = 0) =>
                    /\ ret'.err = "EmptyInput"
                    /\ outputWeights' = outputWeights
                    /\ trained' = trained
              /\ (ret'.err \in {"SizeMismatch", "EmptyInput"}) =>
                    (Len(states) # Len(targets) \/ Len(states) = 0)]_vars

\* A trained engine with its output weights has refused a call with no
\* states and one target.
C20_Witness ==
    /\ ret.op = "trainOutput"
    /\ ret.err = "SizeMismatch"
    /\ Len(ret.arg[1]) = 0
    /\ Len(ret.arg[2]) = 1
    /\ trained
    /\ outputWeights # <<>>

-----------------------------------------------------------------------------
(* Construction with any parameters *)

\* float64 comparisons: false whenever an operand is NaN.
FLe(a, b) == ~a.nan /\ ~b.nan /\ a.v <= b.v

FGe(a, b) == ~a.nan /\ ~b.nan /\ a.v >= b.v

FGt(a, b) == ~a.nan /\ ~b.nan /\ a.v > b.v

\* The error NewESN returns for these parameters, "" if none.
NewESNRefusal(p) ==
    IF p.ReservoirSize <= 0 THEN "InvalidParameter"
    ELSE IF FLe(p.SpectralRadius, Float(0)) \/ FGe(p.SpectralRadius, Float(Scale))
         THEN "InvalidParameter"
    ELSE IF FLe(p.LeakRate, Float(0)) \/ FGt(p.LeakRate, Float(Scale))
         THEN "InvalidParameter"
    ELSE ""

\* Parameters a caller may pass: sizes around zero, spectral radius and leak
\* rate inside, at the ends of, and outside their ranges, and NaN.
NewParams ==
    [ReservoirSize  : {-1, 0, 1, ReservoirSize},
     SpectralRadius : {NaN, Float(-Frac(1, 2)), Float(0), Float(Frac(95, 100)),
                       Float(Scale), Float(Frac(3, 2))},
     InputScaling   : {Scale},
     LeakRate       : {NaN, Float(-Frac(1, 2)), Float(0), Float(Frac(3, 10)),
                       Float(Scale), Float(Frac(11, 10))},
     Sparsity       : {0, Frac(1, 2), 2 * Scale},
     RidgeParam     : {0, Frac(1, 100)},
     TreeDepth      : {-1, 0, 2}]

\* NewESN(log, p, persona): nil and an error, or the engine.
NewESNWith(p, seed) ==
    LET refusal == NewESNRefusal(p)
        n       == p.ReservoirSize
        f       == FillCellsWith(p.Sparsity, n * n, RngSeed(seed), <<>>)
        W       == [i \in 1..n |-> [j \in 1..n |-> f.cells[(i - 1) * n + j]]]
        res     == ScaleSpectralRadiusWith(p.SpectralRadius, W, f.rng)
    IN  /\ ret' = [op |-> "new", err |-> IF refusal = "" THEN "ok" ELSE refusal,
                   arg |-> <<p>>, val |-> <<>>]
        /\ IF refusal # ""
           THEN /\ state' = <<>>
                /\ reservoirWeights' = <<>>
                /\ membranes' = <<>>
                /\ rng' = 0
           ELSE /\ state' = Zeros(n)
                /\ reservoirWeights' = res.w
                /\ membranes' = InitializeMembranes(0, p.TreeDepth)
                /\ rng' = res.rng
        /\ inputWeights' = <<>>
        /\ outputWeights' = <<>>
        /\ trained' = FALSE
        /\ crashed' = FALSE
        /\ nDraws' = 0
        /\ nTrained' = 0
        /\ UNCHANGED held
        /\ UNCHANGED lockVars
        /\ UNCHANGED memVars

InitNew ==
    /\ NoEngine
    /\ NoMembraneSystem

\* One construction, and reads of the engine it returned.
NextNew ==
    \/ \E p \in NewParams, seed \in Seeds : ret.op = "none" /\ NewESNWith(p, seed)
    \/ ret.op = "new" /\ ret.err = "ok" /\ GetState

SpecNew == InitNew /\ [][NextNew]_vars

\* Whether a float64 lies in the open interval (0, 1).
InOpenUnit(x) == ~x.nan /\ 0 < x.v /\ x.v < Scale

\* Whether a float64 lies in the interval (0, 1].
InLeakRange(x) == ~x.nan /\ 0 < x.v /\ x.v <= Scale

\* C12: construction fails with InvalidParameter exactly when the size is
\* <= 0, or the spectral radius is not in (0, 1), or the leak rate is not in
\* (0, 1]; a failed construction returns no engine, and every other
\* combination of parameters gives an engine.
C12_ConstructionFailsExactlyOnInvalid ==
    (ret.op = "new") =>
        LET p == ret.arg[1]
        IN  /\ (ret.err = "InvalidParameter") <=>
                   \/ p.ReservoirSize <= 0
                   \/ ~InOpenUnit(p.SpectralRadius)
                   \/ ~InLeakRange(p.LeakRate)
            /\ (ret.err = "InvalidParameter") => (state = <<>> /\ reservoirWeights = <<>>)
            /\ (ret.err # "InvalidParameter") =>
                   (ret.err = "ok" /\ Len(state) = p.ReservoirSize)

-----------------------------------------------------------------------------
(* A caller that keeps and writes the vector getState returned *)

\* What the caller writes into the vector it holds.
WriteValues == {Frac(7, 10)}

\* The caller assigns v to entry i of the slice it holds; a slice that
\* shares the engine's backing array changes ESN.state with it.
CallerWrite(i, v) ==
    /\ ~crashed
    /\ i \in 1..Len(held.data)
    /\ held' = [held EXCEPT !.data[i] = v]
    /\ state' = IF held.shared THEN [state EXCEPT ![i] = v] ELSE state
    /\ ret' = [op |-> "write", err |-> "ok", arg |-> <<i, v>>, val |-> <<>>]
    /\ UNCHANGED <<inputWeights, reservoirWeights, outputWeights, membranes,
                   rng, trained, crashed, nDraws, nTrained>>
    /\ UNCHANGED lockVars
    /\ UNCHANGED memVars

\* One training sample of the reservoir's width with one target.
OneSample == <<<<ConstRow(ReservoirSize, Scale)>>, <<ConstRow(1, Scale)>>>>

NextAlias ==
    \/ \E input \in {ConstRow(1, Scale), ConstRow(1, Frac(1, 2))} : Update(input)
    \/ Reset
    \/ GetStateCall(TRUE)
    \/ GetState
    \/ TrainOutput(OneSample[1], OneSample[2])
    \/ Predict
    \/ \E i \in 1..ReservoirSize, v \in WriteValues : CallerWrite(i, v)

SpecAlias == Init /\ [][NextAlias]_vars

\* C19: getState returns a copy of the state vector: a write to the
\* returned vector changes neither the engine's state nor what getState and
\* predict return afterwards, and an update or reset of the engine does not
\* change a vector returned earlier.
C19_GetStateReturnsCopy ==
    /\ [][(ret'.op = "write") =>
             /\ state' = state
             /\ outputWeights' = outputWeights
             /\ PredictOutput(outputWeights', state') = PredictOutput(outputWeights, state)]_vars
    /\ [][(ret'.op \in {"update", "reset"}) => held'.data = held.data]_vars
    /\ [](ret.op = "getState" => ret.val = state)

\* The caller wrote to a vector it got from getState, the engine was
\* updated and reset afterwards, and getState was called again: the vector
\* held still has what was returned and written, the engine's state is zero.
C19_Witness ==
    /\ ret.op = "getState"
    /\ ret.val = Zeros(N)
    /\ nDraws > 0
    /\ Len(held.data) = N
    /\ held.data # ret.val
    /\ \E i \in 1..N : held.data[i] \in WriteValues
    /\ \E i \in 1..N : held.data[i] \notin WriteValues \cup {0}

-----------------------------------------------------------------------------
(* The engine called from several goroutines: esn.mu                        *)

NumThreads == 2

Threads == 1..NumThreads

Idle == [op |-> "idle", arg |-> <<>>]

\* The operations that take esn.mu.Lock() and those that take
\* esn.mu.RLock().
WriterOps == {"update", "reset", "trainOutput", "setInputWeights"}

ReaderOps == {"getState", "predict"}

\* sync.RWMutex: Lock() returns when no goroutine holds the mutex.
LockFree(m) == m.writer = 0 /\ m.readers = {}

\* sync.RWMutex: RLock() returns when no goroutine holds it for writing.
RLockFree_Always(m) == TRUE
RLockFree(m) == m.writer = 0

\* The calls the goroutines make.
Calls ==
    { <<"update", <<ConstRow(1, Scale)>> >>,
      <<"reset", <<>> >>,
      <<"setInputWeights", <<1>> >>,
      <<"setInputWeights", <<2>> >>,
      <<"trainOutput", OneSample>>,
      <<"getState", <<>> >>,
      <<"predict", <<>> >> }

\* Goroutine t calls op and gets past its Lock() or RLock().
Call(t, op, arg) ==
    /\ ~crashed
    /\ pc[t] = Idle
    /\ op \in {"update", "setInputWeights"} => nDraws < MaxDraws
    /\ op = "trainOutput" => nTrained < MaxTrainings
    /\ IF op \in WriterOps
       THEN LockFree(mu) /\ mu' = [mu EXCEPT !.writer = t]
       ELSE RLockFree(mu) /\ mu' = [mu EXCEPT !.readers = @ \cup {t}]
    /\ pc' = [pc EXCEPT ![t] = [op |-> op, arg |-> arg]]
    /\ UNCHANGED <<inputWeights, reservoirWeights, outputWeights, state, membranes,
                   rng, trained, crashed, ret, nDraws, nTrained, held, committed>>
    /\ UNCHANGED memVars

\* The deferred Unlock() or RUnlock() of goroutine t's call as it returns.
Leave(t) ==
    /\ mu' = IF mu.writer = t THEN [mu EXCEPT !.writer = 0]
             ELSE [mu EXCEPT !.readers = @ \ {t}]
    /\ pc' = [pc EXCEPT ![t] = Idle]
    /\ committed' = IF pc[t].op \in ReaderOps THEN committed ELSE state'

\* Update up to copy(esn.state, newState), or its return on a mismatch.
UpdateLeaky(t) ==
    /\ pc[t].op = "update"
    /\ LET input == pc[t].arg[1]
           lazy  == Len(inputWeights) = 0
           sized == IF lazy THEN setInputWeights(Len(input), rng)
                    ELSE [w |-> inputWeights, rng |-> rng]
       IN  /\ inputWeights' = sized.w
           /\ rng' = sized.rng
           /\ IF DimensionMismatch(sized.w, input)
              THEN /\ ret' = [op |-> "update", err |-> "DimensionMismatch",
                              arg |-> input, val |-> <<>>]
                   /\ UNCHANGED state
                   /\ Leave(t)
              ELSE /\ state' = [i \in 1..Len(state) |->
                                   LeakyUpdate(sized.w, reservoirWeights, state, input, i)]
                   /\ pc' = [pc EXCEPT ![t].op = "updateMembranes"]
                   /\ UNCHANGED <<ret, mu, committed>>
    /\ held' = Follow(held, state')
    /\ UNCHANGED <<reservoirWeights, outputWeights, membranes, trained, crashed,
                   nDraws, nTrained>>
    /\ UNCHANGED memVars

\* Update: esn.applyMembraneEvolution()
UpdateMembranes(t) ==
    /\ pc[t].op = "updateMembranes"
    /\ LET evolved == applyMembraneEvolution(membranes, 1, state, rng)
       IN  /\ state' = evolved.state
           /\ rng' = evolved.rng
    /\ pc' = [pc EXCEPT ![t].op = "updateRicci"]
    /\ held' = Follow(held, state')
    /\ UNCHANGED <<inputWeights, reservoirWeights, outputWeights, membranes, trained,
                   crashed, ret, nDraws, nTrained, mu, committed>>
    /\ UNCHANGED memVars

\* Update: esn.applyRicciFlow() and the return.
UpdateRicci(t) ==
    /\ pc[t].op = "updateRicci"
    /\ state' = applyRicciFlow(reservoirWeights, state, 1)
    /\ nDraws' = nDraws + 1
    /\ ret' = [op |-> "update", err |-> "ok", arg |-> pc[t].arg[1], val |-> <<>>]
    /\ Leave(t)
    /\ held' = Follow(held, state')
    /\ UNCHANGED <<inputWeights, reservoirWeights, outputWeights, membranes, rng,
                   trained, crashed, nTrained>>
    /\ UNCHANGED memVars

InitLock ==
    /\ \E seed \in Seeds : NewESN(seed)
    /\ NoMembraneSystem

\* The goroutines start with the engine just constructed.
StartThreads ==
    /\ mu = [writer |-> 0, readers |-> {}]
    /\ pc = <<>>
    /\ pc' = [t \in Threads |-> Idle]
    /\ committed' = state
    /\ UNCHANGED <<inputWeights, reservoirWeights, outputWeights, state, membranes,
                   rng, trained, crashed, ret, nDraws, nTrained, held, mu>>
    /\ UNCHANGED memVars

\* The single-phase operations inside their critical sections, up to their
\* return.
ResetLocked(t) == pc[t].op = "reset" /\ ResetBody /\ Leave(t)

SetInputWeightsLocked(t) ==
    pc[t].op = "setInputWeights" /\ SetInputWeightsBody(pc[t].arg[1]) /\ Leave(t)

TrainOutputLocked(t) ==
    pc[t].op = "trainOutput" /\ TrainOutputBody(pc[t].arg[1], pc[t].arg[2]) /\ Leave(t)

GetStateLocked(t) == pc[t].op = "getState" /\ GetStateCallBody(FALSE) /\ Leave(t)

PredictLocked(t) == pc[t].op = "predict" /\ PredictBody /\ Leave(t)

NextLock ==
    \/ StartThreads
    \/ \E t \in DOMAIN pc, c \in Calls : Call(t, c[1], c[2])
    \/ \E t \in DOMAIN pc : UpdateLeaky(t)
    \/ \E t \in DOMAIN pc : UpdateMembranes(t)
    \/ \E t \in DOMAIN pc : UpdateRicci(t)
    \/ \E t \in DOMAIN pc : ResetLocked(t)
    \/ \E t \in DOMAIN pc : SetInputWeightsLocked(t)
    \/ \E t \in DOMAIN pc : TrainOutputLocked(t)
    \/ \E t \in DOMAIN pc : GetStateLocked(t)
    \/ \E t \in DOMAIN pc : PredictLocked(t)

SpecLock == InitLock /\ [][NextLock]_vars

\* Whether goroutine t is inside the critical section of a writing or of a
\* reading operation.
Writing(t) ==
    pc[t].op \in WriterOps \cup {"updateMembranes", "updateRicci"}

Reading(t) == pc[t].op \in ReaderOps

\* C11: at most one of update, reset, trainOutput and setInputWeights is
\* inside its critical section at any time and none of them overlaps a
\* getState or predict; a getState therefore returns the complete state as
\* the last writer left it, from before an update or after all three of its
\* phases, never a vector from between the phases.
C11_WriterExclusion ==
    /\ [](\A t \in DOMAIN pc : Writing(t) =>
             \A u \in DOMAIN pc \ {t} : ~Writing(u) /\ ~Reading(u))
    /\ [][\A t \in DOMAIN pc :
             (pc[t].op = "getState" /\ pc'[t] = Idle) =>
                 (ret'.op = "getState" /\ ret'.val = committed /\ ret'.val = state)]_vars

\* getState and predict are inside their critical sections together, after
\* an update has completed and left a state that is not zero.
C11_Witness ==
    /\ DOMAIN pc = Threads
    /\ pc[1].op = "getState"
    /\ pc[2].op = "predict"
    /\ mu.readers = {1, 2}
    /\ nDraws > 0
    /\ state # Zeros(N)

-----------------------------------------------------------------------------
(* Transport between two membranes *)

\* Whether sub is seq restricted to the positions in keep, in order.
IsRestriction(sub, seq, keep) ==
    /\ Len(sub) = Cardinality(keep)
    /\ \A k \in keep :
          sub[Cardinality({j \in keep : j <= k})] = seq[k]

\* C26: passObjects(source, target) with a distinct, present target keeps
\* every object in exactly one of the two lists: the objects that stay keep
\* their order in the source, those that move are appended to the target in
\* their source order, and nothing else changes; with an absent target it
\* fails with NilTarget and changes no list.
C26_PassObjectsConserves ==
    [][(mret'.op = "passObjects") =>
          LET source == mret'.arg[1]
              target == mret'.arg[2]
              before == All[source].Objects
              movers == {k \in 1..Len(before) :
                            PassProb(All[source].Permeability, before[k]) > Frac(1, 2)}
              added  == SubSeq(All'[target].Objects, Len(All[target].Objects) + 1,
                               Len(All'[target].Objects))
          IN  IF target = 0
              THEN mret'.err = "target membrane is nil" /\ All' = All
              ELSE /\ mret'.err = "ok"
                   /\ Len(All'[source].Objects) + Len(All'[target].Objects)
                        = Len(All[source].Objects) + Len(All[target].Objects)
                   /\ IsRestriction(All'[source].Objects, before,
                                    (1..Len(before)) \ movers)
                   /\ SubSeq(All'[target].Objects, 1, Len(All[target].Objects))
                        = All[target].Objects
                   /\ IsRestriction(added, before, movers)
                   /\ \A j \in 1..Len(All) :
                         [All'[j] EXCEPT !.Objects = <<>>] = [All[j] EXCEPT !.Objects = <<>>]]_vars

\* The source held two objects at the call (mret.log): one stayed, the other
\* moved to the target, or both moved and arrived in their source order.
C26_Witness ==
    /\ mret.op = "passObjects"
    /\ mret.err = "ok"
    /\ Len(mret.log) = 2
    /\ mret.log[1] # mret.log[2]
    /\ \/ /\ All[mret.arg[1]].Objects = <<mret.log[1]>>
          /\ All[mret.arg[2]].Objects = <<mret.log[2]>>
       \/ All[mret.arg[2]].Objects = mret.log

-----------------------------------------------------------------------------
(* One membrane evolving a list of objects under a list of rules *)

MaxEvolveObjects == 3

\* The objects a membrane starts with: those callers inject and a second
\* emotion signal.
EvolveSet == InjectSet \cup {Obj("emotion_signal", Frac(5, 10), 0, Scale)}

Reverse(s) == [k \in 1..Len(s) |-> s[Len(s) + 1 - k]]

\* A caller's rule that names one type twice, and one without a transform.
DoubleTokenRule ==
    [Name |-> "double_token", Priority |-> 75,
     InputTypes |-> <<"token", "token">>,
     OutputTypes |-> <<"modulated_signal">>, Transform |-> "affective_modulation"]

DropTestRule ==
    [Name |-> "drop_test", Priority |-> 100,
     InputTypes |-> <<"test">>, OutputTypes |-> <<>>, Transform |-> ""]

\* The rule lists a membrane is given: the default rules as created, in
\* reverse, and behind or in front of a caller's rules.
RuleLists ==
    { CreateDefaultRules,
      Reverse(CreateDefaultRules),
      <<DoubleTokenRule>> \o CreateDefaultRules,
      CreateDefaultRules \o <<DropTestRule, DoubleTokenRule>> }

InitEvolve ==
    /\ NoEngine
    /\ \E objects \in SeqsUpTo(EvolveSet, MaxEvolveObjects), rules \in RuleLists :
          All = << [NewMembrane("m", 0, Scale) EXCEPT !.Objects = objects,
                                                      !.Rules = rules] >>
    /\ StepCount = 0
    /\ mret = MCall("new", "ok", <<>>, <<>>, <<>>)

NextEvolve == MembraneEvolve(1)

SpecEvolve == InitEvolve /\ [][NextEvolve]_vars

\* The object indices taken by the rules that fired before position r.
UsedBefore(fired, r) ==
    UNION {SeqToSet(fired[k].match) : k \in {j \in 1..Len(fired) : fired[j].rule < r}}

TypesOf(objects) == [k \in 1..Len(objects) |-> objects[k].Type]

\* C23: one evolve() tries the rules in non-increasing priority order, every
\* rule has at most one accepted match, a rule whose required types cannot
\* all be found among the objects no earlier rule consumed consumes nothing,
\* and no object index is consumed by more than one rule; with a token, a
\* negative signal and a positive signal under the default rules only
\* spam_detection fires and the positive signal is untouched.
C23_RulesByPriorityDisjoint ==
    [][(mret'.op = "evolve") =>
          LET m       == All[mret'.arg[1]]
              objects == m.Objects
              sorted  == SortRules(m.Rules)
              fired   == mret'.log
              types(avail) == {objects[k].Type : k \in avail}
          IN  /\ Len(sorted) = Len(m.Rules)
              /\ \A rule \in SeqToSet(m.Rules) :
                    Cardinality({k \in 1..Len(sorted) : sorted[k] = rule})
                      = Cardinality({k \in 1..Len(m.Rules) : m.Rules[k] = rule})
              /\ \A k \in 1..(Len(sorted) - 1) :
                    sorted[k].Priority >= sorted[k + 1].Priority
              /\ \A k \in 1..(Len(fired) - 1) : fired[k].rule < fired[k + 1].rule
              /\ \A k \in 1..Len(fired) : fired[k].rule \in 1..Len(sorted)
              /\ \A j, k \in 1..Len(fired) :
                    j # k => SeqToSet(fired[j].match) \cap SeqToSet(fired[k].match) = {}
              /\ \A r \in 1..Len(sorted) :
                    LET avail == (1..Len(objects)) \ UsedBefore(fired, r)
                        can   == /\ sorted[r].InputTypes # <<>>
                                 /\ SeqToSet(sorted[r].InputTypes) \subseteq types(avail)
                    IN  can <=> (\E k \in 1..Len(fired) : fired[k].rule = r)
              /\ (m.Rules = CreateDefaultRules
                    /\ Len(objects) = 3
                    /\ SeqToSet(TypesOf(objects))
                         = {"token", "negative_signal", "positive_signal"})
                   => /\ Len(fired) = 1
                      /\ sorted[fired[1].rule].Name = "spam_detection"
                      /\ \E k \in 1..3 :
                            /\ objects[k].Type = "positive_signal"
                            /\ All'[mret'.arg[1]].Objects[1] = objects[k]]_vars

\* A token, a positive signal and a negative signal evolved under the
\* default rules: the spam score stands behind the positive signal.
C23_Witness ==
    /\ mret.op = "evolve"
    /\ All[1].Rules = CreateDefaultRules
    /\ Len(mret.log) = 1
    /\ TypesOf(mret.log[1].out) = <<"spam_score">>
    /\ TypesOf(All[1].Objects) = <<"positive_signal", "spam_score">>

RECURSIVE Outputs(_, _)
Outputs(fired, k) ==
    IF k > Len(fired) THEN <<>> ELSE fired[k].out \o Outputs(fired, k + 1)

\* The first index in avail whose object has type t (0 if there is none).
FirstOfType(objects, avail, t) ==
    LET of == {k \in avail : objects[k].Type = t}
    IN  IF of = {} THEN 0 ELSE CHOOSE k \in of : \A j \in of : k <= j

\* C24: after evolve() the list is the unconsumed original objects in their
\* original order followed by the produced objects in the order the rules
\* produced them; unconsumed objects are unmodified, and a rule with a
\* single input type transforms only the first unconsumed object of it.
C24_EvolveKeepsOrder ==
    [][(mret'.op = "evolve") =>
          LET m        == All[mret'.arg[1]]
              objects  == m.Objects
              sorted   == SortRules(m.Rules)
              fired    == mret'.log
              consumed == UsedBefore(fired, Len(sorted) + 1)
              after    == All'[mret'.arg[1]].Objects
              kept     == Len(objects) - Cardinality(consumed)
          IN  /\ Len(after) = kept + Len(Outputs(fired, 1))
              /\ IsRestriction(SubSeq(after, 1, kept), objects,
                               (1..Len(objects)) \ consumed)
              /\ SubSeq(after, kept + 1, Len(after)) = Outputs(fired, 1)
              /\ \A k \in 1..Len(fired) :
                    LET rule  == sorted[fired[k].rule]
                        avail == (1..Len(objects)) \ UsedBefore(fired, fired[k].rule)
                    IN  Len(rule.InputTypes) = 1 =>
                          /\ fired[k].match
                               = <<FirstOfType(objects, avail, rule.InputTypes[1])>>
                          /\ rule.Transform = "affective_modulation" =>
                               fired[k].out
                                 = << [objects[fired[k].match[1]] EXCEPT
                                         !.Value = FMul(@, Frac(11, 10)),
                                         !.Type = "modulated_signal"] >>]_vars

\* Of two emotion signals around a token the first was modulated and went
\* to the end; the token and the second signal stayed in order.
C24_Witness ==
    /\ mret.op = "evolve"
    /\ Len(mret.log) = 1
    /\ mret.log[1].match = <<1>>
    /\ TypesOf(All[1].Objects) = <<"token", "emotion_signal", "modulated_signal">>
    /\ All[1].Objects[2].Value # Scale

\* C25: a rule matches with one object of each distinct type among its
\* input types, however often the type is named: its match is the first
\* unconsumed object of every distinct type, in list order, it fires when
\* every distinct type has one, and its transform receives exactly these
\* objects, at most one per type.
C25_OneObjectPerDistinctType ==
    [][(mret'.op = "evolve") =>
          LET m       == All[mret'.arg[1]]
              objects == m.Objects
              sorted  == SortRules(m.Rules)
              fired   == mret'.log
          IN  /\ \A k \in 1..Len(fired) :
                    LET rule   == sorted[fired[k].rule]
                        needed == SeqToSet(rule.InputTypes)
                        avail  == (1..Len(objects)) \ UsedBefore(fired, fired[k].rule)
                        match  == fired[k].match
                    IN  /\ Len(match) = Cardinality(needed)
                        /\ \A j \in 1..(Len(match) - 1) : match[j] < match[j + 1]
                        /\ SeqToSet(match) = {FirstOfType(objects, avail, t) : t \in needed}
                        /\ fired[k].out
                             = Transform(rule.Transform,
                                         [j \in 1..Len(match) |-> objects[match[j]]])
              /\ \A r \in 1..Len(sorted) :
                    LET avail == (1..Len(objects)) \ UsedBefore(fired, r)
                    IN  (/\ sorted[r].InputTypes # <<>>
                         /\ \A t \in SeqToSet(sorted[r].InputTypes) :
                               FirstOfType(objects, avail, t) # 0)
                          => \E k \in 1..Len(fired) : fired[k].rule = r]_vars

\* The rule naming "token" twice fired on one token while a second token
\* stayed in the list.
C25_Witness ==
    /\ mret.op = "evolve"
    /\ \E k \in 1..Len(mret.log) :
          /\ SortRules(All[1].Rules)[mret.log[k].rule].Name = "double_token"
          /\ Len(mret.log[k].match) = 1
          /\ Len(mret.log[k].out) = 1
    /\ \E k \in 1..Len(All[1].Objects) : All[1].Objects[k].Type = "token"

RECURSIVE EvolveTimes(_, _)
EvolveTimes(m, n) ==
    IF n = 0 THEN m ELSE EvolveTimes([m EXCEPT !.Objects = Evolve(m)], n - 1)

\* C29: with the default rules evolve() never increases the number of
\* objects and no rule output has a type any rule takes as input, so
\* evolving a list of n objects n times reaches a list that every further
\* evolve() leaves as it is.
C29_EvolveReachesFixedPoint ==
    [][(mret'.op = "evolve"
          /\ SeqToSet(All[mret'.arg[1]].Rules) = SeqToSet(CreateDefaultRules)) =>
          LET m      == All[mret'.arg[1]]
              after  == All'[mret'.arg[1]]
              inputs == UNION {SeqToSet(m.Rules[r].InputTypes) : r \in 1..Len(m.Rules)}
              last   == EvolveTimes(m, Len(m.Objects))
          IN  /\ Len(after.Objects) <= Len(m.Objects)
              /\ \A k \in 1..Len(mret'.log) :
                    /\ Len(mret'.log[k].out) <= Len(mret'.log[k].match)
                    /\ SeqToSet(TypesOf(mret'.log[k].out)) \cap inputs = {}
              /\ \A r \in 1..Len(m.Rules) :
                    SeqToSet(m.Rules[r].OutputTypes) \cap inputs = {}
              /\ Evolve(last) = last.Objects
              /\ Fired(last) = <<>>
              /\ mret'.log = <<>> => after.Objects = m.Objects]_vars

\* An evolve() that changed nothing on a list holding a score an earlier
\* evolve() produced.
C29_Witness ==
    /\ mret.op = "evolve"
    /\ SeqToSet(All[1].Rules) = SeqToSet(CreateDefaultRules)
    /\ mret.log = <<>>
    /\ \E k \in 1..Len(All[1].Objects) : All[1].Objects[k].Type = "spam_score"
    /\ \E k \in 1..Len(All[1].Objects) : All[1].Objects[k].Type = "modulated_signal"

-----------------------------------------------------------------------------
(* The direction of transport in Step *)

\* The objects call k of Step's calls moved, on the registry as the calls
\* before it left it.
MovedBy(all, calls, k) ==
    LET before == RunRange(all, calls, 1, k - 1)
    IN  Select(before[calls[k][2]].Objects, before[calls[k][2]].Permeability, TRUE, 1)

IsPass(c) == c[1] # "evolve"

\* Whether membrane t is a child, and not the first one, of its parent.
IsLaterChild(all, t) ==
    all[t].Parent # 0 /\ all[all[t].Parent].Children[1] # t

\* Whether every object is in the root or in the root's first child.
OnlyRootAndFirstChild(all) ==
    \A i \in 1..Len(all) :
        all[i].Objects # <<>> => i = 1 \/ i = all[1].Children[1]

\* C28 as stated: in Step's transport phase a membrane with a parent sends
\* nothing to its children and the root sends to its first child only, so
\* that no second child receives any object in Step.
C28_SecondChildNeverReceives ==
    [][(mret'.op = "step") =>
          \A k \in 1..Len(mret'.log) :
              (IsPass(mret'.log[k]) /\ IsLaterChild(All, mret'.log[k][3]))
                => MovedBy(All, mret'.log, k) = <<>>]_vars

\* C28, amended: in Step's transport phase no membrane with a parent sends
\* anything to a child, and the root sends to its first child only, so a
\* second child receives nothing from its parent (it can receive from its
\* own children); when every object is in the root or the root's first
\* child, Step and an injection at the root leave every object there, so
\* no membrane of level 2 or more holds one.
C28_NoTransportToLaterChildren ==
    [][/\ (mret'.op = "step") =>
            /\ \A k \in 1..Len(mret'.log) :
                  LET c == mret'.log[k]
                  IN  (IsPass(c) /\ All[c[3]].Parent = c[2]
                         /\ (All[c[2]].Parent # 0 \/ IsLaterChild(All, c[3])))
                        => MovedBy(All, mret'.log, k) = <<>>
            /\ OnlyRootAndFirstChild(All) =>
                  /\ OnlyRootAndFirstChild(All')
                  /\ \A i \in 1..Len(All) : All[i].Level >= 2 => All'[i].Objects = <<>>
       /\ (mret'.op = "injectObject" /\ mret'.arg[1] = "root"
             /\ OnlyRootAndFirstChild(All))
           => OnlyRootAndFirstChild(All')]_vars

\* A step on a root holding an object that cannot leave it and, behind it,
\* one that went to the first child and came back in the same step; every
\* other membrane is empty.
C28_Witness ==
    /\ mret.op = "step"
    /\ OnlyRootAndFirstChild(All)
    /\ Len(All[1].Objects) = 2
    /\ PassProb(All[1].Permeability, All[1].Objects[1]) <= Frac(1, 2)
    /\ PassProb(All[1].Permeability, All[1].Objects[2]) > Frac(1, 2)
    /\ PassProb(All[All[1].Children[1]].Permeability, All[1].Objects[2]) > Frac(1, 2)

-----------------------------------------------------------------------------
(* The filter's reads of esn.trained *)

\* The callers that read rf.esn.trained.
TrainedReaders == {"ClassifyMessage", "GetStats"}

\* What a read of esn.trained can return: the flag, or, while another
\* goroutine is inside TrainOutput and the read is not ordered with its
\* write, either value.
TrainedValues(t) ==
    IF \E u \in DOMAIN pc \ {t} : pc[u].op = "trainOutput"
    THEN BOOLEAN
    ELSE {trained}

\* rf.esn.trained as ClassifyMessage and GetStats read it: no call on
\* esn.mu comes before the read.
ReadTrained(t, caller) ==
    /\ ~crashed
    /\ pc[t] = Idle
    /\ \E v \in TrainedValues(t) :
          pc' = [pc EXCEPT ![t] = [op |-> "readTrained", arg |-> <<caller, v>>]]
    /\ UNCHANGED <<inputWeights, reservoirWeights, outputWeights, state, membranes,
                   rng, trained, crashed, ret, nDraws, nTrained, held, mu, committed>>
    /\ UNCHANGED memVars

\* ClassifyMessage after the read: esn.Predict if the value read was true,
\* esn.GetState otherwise, each getting past its RLock().
ClassifyBranch(t) ==
    /\ pc[t].op = "readTrained"
    /\ pc[t].arg[1] = "ClassifyMessage"
    /\ RLockFree(mu)
    /\ mu' = [mu EXCEPT !.readers = @ \cup {t}]
    /\ pc' = [pc EXCEPT ![t] = [op |-> IF pc[t].arg[2] THEN "predict" ELSE "getState",
                                arg |-> <<>>]]
    /\ UNCHANGED <<inputWeights, reservoirWeights, outputWeights, state, membranes,
                   rng, trained, crashed, ret, nDraws, nTrained, held, committed>>
    /\ UNCHANGED memVars

\* GetStats returns the value read as stats["esn_trained"].
GetStats(t) ==
    /\ pc[t].op = "readTrained"
    /\ pc[t].arg[1] = "GetStats"
    /\ pc' = [pc EXCEPT ![t] = Idle]
    /\ ret' = [op |-> "getStats", err |-> "ok", arg |-> <<>>, val |-> <<pc[t].arg[2]>>]
    /\ UNCHANGED <<inputWeights, reservoirWeights, outputWeights, state, membranes,
                   rng, trained, crashed, nDraws, nTrained, held, mu, committed>>
    /\ UNCHANGED memVars

\* The calls the filter and its owner make on the shared engine.
FilterCalls ==
    { <<"update", <<ConstRow(1, Scale)>> >>,
      <<"trainOutput", OneSample>> }

NextFilter ==
    \/ StartThreads
    \/ \E t \in DOMAIN pc, c \in FilterCalls : Call(t, c[1], c[2])
    \/ \E t \in DOMAIN pc : UpdateLeaky(t)
    \/ \E t \in DOMAIN pc : UpdateMembranes(t)
    \/ \E t \in DOMAIN pc : UpdateRicci(t)
    \/ \E t \in DOMAIN pc : TrainOutputLocked(t)
    \/ \E t \in DOMAIN pc, caller \in TrainedReaders : ReadTrained(t, caller)
    \/ \E t \in DOMAIN pc : ClassifyBranch(t)
    \/ \E t \in DOMAIN pc : GetStats(t)
    \/ \E t \in DOMAIN pc : GetStateLocked(t)
    \/ \E t \in DOMAIN pc : PredictLocked(t)

SpecFilter == InitLock /\ [][NextFilter]_vars

\* Whether goroutine t holds esn.mu, for writing or for reading.
HoldsLock(t) == mu.writer = t \/ t \in mu.readers

\* C30: every read of the trained flag happens while the reader holds the
\* engine's lock, so that no read of it takes place while another goroutine
\* is inside trainOutput, and the value read is the flag's value.
C30_TrainedReadUnderLock ==
    \A t \in DOMAIN pc :
        pc[t].op = "readTrained" =>
            /\ HoldsLock(t)
            /\ \A u \in DOMAIN pc \ {t} : pc[u].op # "trainOutput"
            /\ pc[t].arg[2] = trained

-----------------------------------------------------------------------------
(* InjectObject and PassObjects called from two goroutines: no lock *)

MaxInjects == 3

\* Objects injected at the source: one that passes the source's membrane
\* and two that do not.
RaceSet ==
    { Obj("negative_signal", Frac(15, 10), -1, Frac(9, 10)),
      Obj("token", Scale, 0, Frac(5, 10)),
      Obj("test", Scale, 1, 0) }

\* Everything but the registry, the goroutines and the call record.
raceFrame == <<inputWeights, reservoirWeights, outputWeights, state, membranes, rng,
               trained, crashed, ret, nDraws, nTrained, held, mu, committed, StepCount,
               twin>>

\* Membrane.AddObject: append(m.Objects, obj) on the list as it was read.
AppendObject_Replace(objects, obj) == <<obj>>
AppendObject(objects, obj) == Append(objects, obj)

\* The call record: whether a call ever started while another goroutine
\* was inside one, and the objects injected so far.
RaceRecord(op, t, overlapped, injected) ==
    MCall(op, "ok", <<t>>, <<overlapped>>, injected)

Overlaps(t) == mret.val[1] \/ \E u \in DOMAIN pc \ {t} : pc[u] # Idle

InitRace ==
    /\ NoEngine
    /\ All = TwoMembranes(Scale)
    /\ StepCount = 0
    /\ mret = RaceRecord("new", 0, FALSE, <<>>)

\* The two callers: one injects at the source, one runs its PassObjects.
Callers == {"injectObject", "passObjects"}

StartCallers ==
    /\ pc = <<>>
    /\ pc' = [t \in Callers |-> Idle]
    /\ UNCHANGED <<All, mret>>
    /\ UNCHANGED raceFrame

\* Goroutine t enters InjectObject(membraneID, obj) and finds the membrane.
InjectEnter(t, membraneID, obj) ==
    /\ pc[t] = Idle
    /\ Len(mret.log) < MaxInjects
    /\ Lookup(All, membraneID) # 0
    /\ pc' = [pc EXCEPT ![t] = [op |-> "injectObject",
                                arg |-> <<Lookup(All, membraneID), obj>>]]
    /\ mret' = RaceRecord("injectObject", t, Overlaps(t), Append(mret.log, obj))
    /\ UNCHANGED All
    /\ UNCHANGED raceFrame

\* AddObject reads m.Objects for the append.
InjectRead(t) ==
    /\ pc[t].op = "injectObject"
    /\ pc' = [pc EXCEPT ![t] = [op |-> "injectAppend",
                                arg |-> pc[t].arg \o <<All[pc[t].arg[1]].Objects>>]]
    /\ UNCHANGED <<All, mret>>
    /\ UNCHANGED raceFrame

\* AddObject stores the appended list in m.Objects; InjectObject returns.
InjectWrite(t) ==
    /\ pc[t].op = "injectAppend"
    /\ All' = [All EXCEPT ![pc[t].arg[1]].Objects = AppendObject(pc[t].arg[3], pc[t].arg[2])]
    /\ pc' = [pc EXCEPT ![t] = Idle]
    /\ UNCHANGED mret
    /\ UNCHANGED raceFrame

\* Goroutine t enters source.PassObjects(target): the range statement
\* evaluates m.Objects once, remaining is empty.
PassEnter(t, source, target) ==
    /\ pc[t] = Idle
    /\ pc' = [pc EXCEPT ![t] = [op |-> "passObjects",
                                arg |-> <<source, target, All[source].Objects, <<>>, 1>>]]
    /\ mret' = RaceRecord("passObjects", t, Overlaps(t), mret.log)
    /\ UNCHANGED All
    /\ UNCHANGED raceFrame

\* One iteration of PassObjects' loop over the list it ranged over.
PassIterate(t) ==
    /\ pc[t].op = "passObjects"
    /\ LET source    == pc[t].arg[1]
           target    == pc[t].arg[2]
           objects   == pc[t].arg[3]
           remaining == pc[t].arg[4]
           k         == pc[t].arg[5]
       IN  /\ k <= Len(objects)
           /\ IF Passes(All[source].Permeability, objects[k])
              THEN /\ All' = [All EXCEPT ![target].Objects = AppendObject(@, objects[k])]
                   /\ pc' = [pc EXCEPT ![t].arg[5] = k + 1]
              ELSE /\ pc' = [pc EXCEPT ![t].arg[4] = Append(remaining, objects[k]),
                                       ![t].arg[5] = k + 1]
                   /\ UNCHANGED All
    /\ UNCHANGED mret
    /\ UNCHANGED raceFrame

\* m.Objects = remaining, and PassObjects returns.
PassInstall(t) ==
    /\ pc[t].op = "passObjects"
    /\ pc[t].arg[5] > Len(pc[t].arg[3])
    /\ All' = [All EXCEPT ![pc[t].arg[1]].Objects = pc[t].arg[4]]
    /\ pc' = [pc EXCEPT ![t] = Idle]
    /\ UNCHANGED mret
    /\ UNCHANGED raceFrame

NextRace ==
    \/ StartCallers
    \/ \E obj \in RaceSet : pc # <<>> /\ InjectEnter("injectObject", "outer", obj)
    \/ \E t \in DOMAIN pc : InjectRead(t)
    \/ \E t \in DOMAIN pc : InjectWrite(t)
    \/ pc # <<>> /\ PassEnter("passObjects", 1, 2)
    \/ \E t \in DOMAIN pc : PassIterate(t)
    \/ \E t \in DOMAIN pc : PassInstall(t)

SpecRace == InitRace /\ [][NextRace]_vars

\* How often obj occurs in the lists of all membranes, and in a list.
Occurrences(objects, obj) == Cardinality({k \in 1..Len(objects) : objects[k] = obj})

Held(all, obj) == SumSeq([i \in 1..Len(all) |-> Occurrences(all[i].Objects, obj)])

Quiet == \A t \in DOMAIN pc : pc[t] = Idle

\* C27: the membranes take no lock, so an injectObject that runs while a
\* passObjects with the same source is under way can lose the injected
\* object or leave an object in both source and target; objects are lost
\* or doubled in no other way: callers that never overlap find every
\* injected object exactly once in the hierarchy, and no object is ever
\* held that was not injected.
C27_OnlyOverlapCorrupts ==
    /\ mu = [writer |-> 0, readers |-> {}]
    /\ \A obj \in RaceSet :
          /\ Held(All, obj) > 0 => Occurrences(mret.log, obj) > 0
          /\ (Quiet /\ ~mret.val[1]) => Held(All, obj) = Occurrences(mret.log, obj)

\* Both calls have returned: an injected object is in no membrane, and
\* another is in the source and in the target.
C27_Witness ==
    /\ DOMAIN pc = Callers
    /\ Quiet
    /\ \E obj \in RaceSet :
          /\ Occurrences(mret.log, obj) = 1
          /\ Held(All, obj) = 0
    /\ \E obj \in RaceSet :
          /\ Occurrences(mret.log, obj) = 1
          /\ Occurrences(All[1].Objects, obj) = 1
          /\ Occurrences(All[2].Objects, obj) = 1

-----------------------------------------------------------------------------
(* scaleSpectralRadius on the matrices initializeReservoir can draw *)

\* The weight of the connections of a matrix, and the matrices: every cell
\* is zero (no connection) or the weight.
ScaleWeights == {Scale, -Frac(1, 2)}

UnscaledMatrices ==
    {[i \in 1..N |-> [j \in 1..N |-> IF pattern[i][j] THEN w ELSE 0]] :
        pattern \in [1..N -> [1..N -> BOOLEAN]], w \in ScaleWeights}

\* Configured spectral radii.
SpectralRadii == {Frac(95, 100), Frac(1, 2)}

\* The engine inside initializeReservoir, the cells filled and not yet
\* scaled: the call record holds the configured spectral radius.
InitScale ==
    /\ \E W \in UnscaledMatrices, seed \in Seeds, sr \in SpectralRadii :
          /\ reservoirWeights = W
          /\ rng = RngSeed(seed)
          /\ ret = [op |-> "fill", err |-> "ok", arg |-> <<W, RngSeed(seed), sr>>,
                    val |-> <<>>]
    /\ inputWeights = <<>>
    /\ outputWeights = <<>>
    /\ state = <<>>
    /\ membranes = <<>>
    /\ trained = FALSE
    /\ crashed = FALSE
    /\ nDraws = 0
    /\ nTrained = 0
    /\ held = NoSlice
    /\ NoThreads
    /\ NoMembraneSystem

\* The rest of initializeReservoir: scaleSpectralRadius, whose error is
\* always nil; val keeps its eigenvalue estimate and its iterated vector.
ScaleReservoir ==
    /\ ret.op = "fill"
    /\ \E res \in {ScaleSpectralRadiusWith(Float(ret.arg[3]), reservoirWeights, rng)} :
          /\ reservoirWeights' = res.w
          /\ rng' = res.rng
          /\ ret' = [ret EXCEPT !.op = "initializeReservoir",
                                !.val = <<res.eigenvalue, res.v>>]
    /\ state' = Zeros(N)
    /\ UNCHANGED <<inputWeights, outputWeights, membranes, trained, crashed,
                   nDraws, nTrained, held>>
    /\ UNCHANGED lockVars
    /\ UNCHANGED memVars

NextScale == ScaleReservoir

SpecScale == InitScale /\ [][NextScale]_vars

IsZeroMatrix(W) == \A i \in 1..Len(W) : \A j \in 1..Len(W[i]) : W[i][j] = 0

\* Whether the estimate e is as close to the spectral radius sr as the
\* arithmetic allows: three units of its resolution per row, times the
\* factor the weights were multiplied with (plus one).
WithinTolerance(e, sr, W, scale) ==
    Abs(e - sr) * Scale <= 3 * Len(W) * (Scale + scale)

\* C22 as stated: after initialization the estimated dominant eigenvalue of
\* the reservoir matrix is within tolerance of the spectral radius unless
\* the unscaled matrix was all zero; then the matrix stays all zero.
C22_ScaledUnlessAllZero ==
    (ret.op = "initializeReservoir") =>
        LET W  == ret.arg[1]
            sr == ret.arg[3]
            e  == ret.val[1]
        IN  /\ ret.err = "ok"
            /\ IsZeroMatrix(W) => reservoirWeights = W
            /\ ~IsZeroMatrix(W) =>
                  /\ e > 0
                  /\ WithinTolerance(EstimateEigenvalue(reservoirWeights, ret.val[2]),
                                     sr, W, FDiv(sr, e))

\* C22, amended: after initialization the estimated dominant eigenvalue of
\* the reservoir matrix is within tolerance of the spectral radius unless
\* the estimate for the unscaled matrix was not positive (zero or NaN), as
\* it is for the all-zero matrix and also for non-zero matrices on which
\* the power iteration collapses; then no scaling is applied and the matrix
\* stays as drawn, all zero if it was all zero.  Construction succeeds in
\* every case.
C22_ScaledUnlessEstimateZero ==
    (ret.op = "initializeReservoir") =>
        LET W  == ret.arg[1]
            sr == ret.arg[3]
            e  == ret.val[1]
        IN  /\ ret.err = "ok"
            /\ e >= 0
            /\ IsZeroMatrix(W) => e = 0
            /\ e = 0 => reservoirWeights = W
            /\ e > 0 =>
                  /\ reservoirWeights
                       = [i \in 1..Len(W) |->
                            [j \in 1..Len(W[i]) |-> FMul(W[i][j], FDiv(sr, e))]]
                  /\ WithinTolerance(EstimateEigenvalue(reservoirWeights, ret.val[2]),
                                     sr, W, FDiv(sr, e))

\* A matrix whose estimate was more than twice the spectral radius has been
\* scaled down.
C22_Witness ==
    /\ ret.op = "initializeReservoir"
    /\ reservoirWeights # ret.arg[1]
    /\ ret.val[1] > 2 * ret.arg[3]
    /\ \E i, j \in 1..N : /\ ret.arg[1][i][j] = Scale
                          /\ reservoirWeights[i][j] < Frac(1, 2)

-----------------------------------------------------------------------------
(* Two engines with their own generators, fed the same inputs *)

\* The generator an engine draws from: esn.rng, created for this engine in
\* NewESN, whatever other engines have drawn from theirs.
OwnSource_Shared(own, other) == other
OwnSource(own, other) == own

\* NewESN with the clock reading seed; like is the reading the first engine
\* was built with, n counts the updates made.
NewEngine(seed, like) ==
    LET res == InitializeReservoir(RngSeed(seed))
    IN  [seeds |-> <<like, seed>>, n |-> 0,
         inputWeights |-> <<>>, reservoirWeights |-> res.w,
         state |-> Zeros(N), membranes |-> InitializeMembranes(0, params.TreeDepth),
         rng |-> res.rng]

\* Update(input) on an engine e that accepts the input.
UpdateEngine(e, input) ==
    LET sized    == IF Len(e.inputWeights) = 0 THEN setInputWeights(Len(input), e.rng)
                    ELSE [w |-> e.inputWeights, rng |-> e.rng]
        newState == [i \in 1..Len(e.state) |->
                        LeakyUpdate(sized.w, e.reservoirWeights, e.state, input, i)]
        evolved  == applyMembraneEvolution(e.membranes, 1, newState, sized.rng)
    IN  IF DimensionMismatch(sized.w, input)
        THEN [e EXCEPT !.inputWeights = sized.w, !.rng = sized.rng]
        ELSE [e EXCEPT !.inputWeights = sized.w,
                       !.state = applyRicciFlow(e.reservoirWeights, evolved.state, 1),
                       !.rng = evolved.rng,
                       !.n = @ + 1]

InitTwin ==
    /\ \E seed \in Seeds, other \in Seeds :
          /\ NewESN(seed)
          /\ twin = NewEngine(other, seed)
    /\ All = <<>>
    /\ StepCount = 0
    /\ mret = [op |-> "none", err |-> "ok", arg |-> <<>>, val |-> <<>>, log |-> <<>>]

\* The second engine is given the input the first was just updated with.
TwinUpdate ==
    /\ twin.n < nDraws
    /\ ret.op = "update" /\ ret.err = "ok"
    /\ twin' = UpdateEngine([twin EXCEPT !.rng = OwnSource(@, rng)], ret.arg)
    /\ UNCHANGED <<inputWeights, reservoirWeights, outputWeights, state, membranes,
                   rng, trained, crashed, ret, nDraws, nTrained, held>>
    /\ UNCHANGED lockVars
    /\ UNCHANGED <<All, StepCount, mret>>

NextTwin ==
    \/ \E input \in Inputs : twin.n = nDraws /\ Update(input)
    \/ TwinUpdate

SpecTwin == InitTwin /\ [][NextTwin]_vars

====
